---- MODULE Spec2Model ----
(***************************************************************************)
(* Block sub-allocators of vulkano's standard memory pool:                 *)
(*   StandardHostVisibleMemoryTypePool    (memory/pool/host_visible.rs)    *)
(*   StandardNonHostVisibleMemoryTypePool (memory/pool/non_host_visible.rs)*)
(*                                                                         *)
(* One pool instance is modelled.  Its state is the Mutex-protected vector *)
(* `occupied` of (block, occupied ranges).  Several threads call alloc and *)
(* drop allocations; every thread follows the statements of the code: the  *)
(* asserts, the lock, the search over the existing blocks, the insertion,  *)
(* the request of a new block from the driver, the release of the lock.    *)
(*                                                                         *)
(* DeviceSize is u64.  Every size of the model is below 2^31, so that no   *)
(* u64 operation of the code wraps on the values the model explores.       *)
(***************************************************************************)
EXTENDS Integers, Sequences, FiniteSets, Bags, TLC

\* ------------------------------------------------------------------ bounds
NumThreads == 2
MaxBlocks == 2
MaxLive == 3
\* The largest arguments align is applied to on its own.
MaxVal == 24
MaxAl == 8
\* The number of memory types of the physical device.
NumTypes == 3
\* The semaphores the driver creates before it is out of memory, and the
\* drops of pooled semaphores a run makes.
MaxHandles == 2
MaxRecycles == 2

Threads == 1..NumThreads

\* --------------------------------------------------------------- constants
MiB == 1024 * 1024
MIN_BLOCK_SIZE == 8 * 1024 * 1024
KiB == 1024
MAX_POOL_ALLOC == 256 * 1024 * 1024

\* The (size, alignment) pairs the callers pass to alloc.  A run draws its
\* requests from one of three workloads: small allocations that share a
\* block of MIN_BLOCK_SIZE, large ones that need a bigger block, and calls
\* that break the preconditions of alloc next to valid ones.
Workloads == {"small", "large", "invalid"}
Requests(w) ==
    CASE w = "small" -> {<<4 * MiB, 256>>, <<MiB, 256>>, <<MiB, 4 * MiB>>}
      [] w = "large" -> {<<4 * MiB, 256>>, <<12 * MiB, 256>>, <<4 * MiB, 8 * MiB>>}
      [] w = "invalid" -> {<<4 * MiB, 256>>, <<0, 256>>, <<MiB, 0>>}
      [] OTHER -> {}

\* ------------------------------------------------------------ pure helpers
Min(S) == CHOOSE x \in S : \A y \in S : x <= y

\* Variants of align: one that does not round, one that always moves on to
\* the next multiple.
align_NoRound(val, al) == val
align_AlwaysUp(val, al) == al * (1 + (val \div al))

\* fn align(val, al) = al * (1 + (val - 1) / al); called with val = e.end > 0.
align(val, al) == al * (1 + ((val - 1) \div al))

RECURSIVE Pow2From(_, _)
Pow2From(p, n) == IF p >= n THEN p ELSE Pow2From(2 * p, n)

\* u64::next_power_of_two: the smallest power of two >= n.
next_power_of_two(n) == Pow2From(1, n)

\* Variant of allocation_size: the size itself instead of its power of two.
allocation_size_NoPow2(size) ==
    IF size > MIN_BLOCK_SIZE THEN size ELSE MIN_BLOCK_SIZE

\* cmp::max(MIN_BLOCK_SIZE, size.next_power_of_two())
allocation_size(size) ==
    IF next_power_of_two(size) > MIN_BLOCK_SIZE
    THEN next_power_of_two(size) ELSE MIN_BLOCK_SIZE

\* Variant of ArgsValid: the assert on size is missing.
ArgsValid_AlignmentOnly(size, alignment) == alignment # 0

\* assert!(size != 0); assert!(alignment != 0);
ArgsValid(size, alignment) == size # 0 /\ alignment # 0

\* Vec::insert(index, element), index 1-based here; index = len + 1 is a push.
InsertAt(s, idx, x) ==
    IF idx > Len(s) THEN Append(s, x)
    ELSE SubSeq(s, 1, idx - 1) \o <<x>> \o SubSeq(s, idx, Len(s))

\* Vec::retain(|e| e.start != offset)
RECURSIVE Retain(_, _)
Retain(s, offset) ==
    IF s = <<>> THEN <<>>
    ELSE IF Head(s).start # offset
         THEN <<Head(s)>> \o Retain(Tail(s), offset)
         ELSE Retain(Tail(s), offset)

\* Variant of BlockPlan: the new range is inserted before entry1, not after.
BlockPlan_InsertBefore(blk, size, alignment) ==
    LET e == blk.entries
        gaps == {i \in 1..(Len(e) - 1) :
                    align(e[i].end, alignment) + size <= e[i + 1].start}
        last_end == IF Len(e) = 0 THEN 0 ELSE align(e[Len(e)].end, alignment)
    IN  IF gaps # {}
        THEN [kind |-> "gap", idx |-> Min(gaps),
              offset |-> align(e[Min(gaps)].end, alignment)]
        ELSE IF last_end + size <= blk.cap
             THEN [kind |-> "append", idx |-> Len(e) + 1, offset |-> last_end]
             ELSE [kind |-> "none", idx |-> 0, offset |-> 0]

\* Variant of BlockPlan: the tail of the block is tried before the gaps.
BlockPlan_TailFirst(blk, size, alignment) ==
    LET e == blk.entries
        gaps == {i \in 1..(Len(e) - 1) :
                    align(e[i].end, alignment) + size <= e[i + 1].start}
        last_end == IF Len(e) = 0 THEN 0 ELSE align(e[Len(e)].end, alignment)
    IN  IF last_end + size <= blk.cap
        THEN [kind |-> "append", idx |-> Len(e) + 1, offset |-> last_end]
        ELSE IF gaps # {}
             THEN [kind |-> "gap", idx |-> Min(gaps) + 1,
                   offset |-> align(e[Min(gaps)].end, alignment)]
             ELSE [kind |-> "none", idx |-> 0, offset |-> 0]

\* Variant of BlockPlan: the room in front of the first range is tried first.
BlockPlan_HeadGap(blk, size, alignment) ==
    LET e == blk.entries
        gaps == {i \in 1..(Len(e) - 1) :
                    align(e[i].end, alignment) + size <= e[i + 1].start}
        last_end == IF Len(e) = 0 THEN 0 ELSE align(e[Len(e)].end, alignment)
    IN  IF Len(e) > 0 /\ size <= e[1].start
        THEN [kind |-> "gap", idx |-> 1, offset |-> 0]
        ELSE IF gaps # {}
        THEN [kind |-> "gap", idx |-> Min(gaps) + 1,
              offset |-> align(e[Min(gaps)].end, alignment)]
        ELSE IF last_end + size <= blk.cap
             THEN [kind |-> "append", idx |-> Len(e) + 1, offset |-> last_end]
             ELSE [kind |-> "none", idx |-> 0, offset |-> 0]

\* Variant of BlockPlan: a block that has no ranges is passed over.
BlockPlan_SkipEmpty(blk, size, alignment) ==
    LET e == blk.entries
        gaps == {i \in 1..(Len(e) - 1) :
                    align(e[i].end, alignment) + size <= e[i + 1].start}
        last_end == IF Len(e) = 0 THEN 0 ELSE align(e[Len(e)].end, alignment)
    IN  IF gaps # {}
        THEN [kind |-> "gap", idx |-> Min(gaps) + 1,
              offset |-> align(e[Min(gaps)].end, alignment)]
        ELSE IF Len(e) > 0 /\ last_end + size <= blk.cap
             THEN [kind |-> "append", idx |-> Len(e) + 1, offset |-> last_end]
             ELSE [kind |-> "none", idx |-> 0, offset |-> 0]

\* The search of one block: the loop over adjacent entries, then the tail.
\* idx is the (1-based) position the new range is inserted at.
BlockPlan(blk, size, alignment) ==
    LET e == blk.entries
        gaps == {i \in 1..(Len(e) - 1) :
                    align(e[i].end, alignment) + size <= e[i + 1].start}
        last_end == IF Len(e) = 0 THEN 0 ELSE align(e[Len(e)].end, alignment)
    IN  IF gaps # {}
        THEN [kind |-> "gap", idx |-> Min(gaps) + 1,
              offset |-> align(e[Min(gaps)].end, alignment)]
        ELSE IF last_end + size <= blk.cap
             THEN [kind |-> "append", idx |-> Len(e) + 1, offset |-> last_end]
             ELSE [kind |-> "none", idx |-> 0, offset |-> 0]

\* Variant of Search: only the first block of the list is looked at.
Search_FirstBlockOnly(occ, size, alignment) ==
    IF Len(occ) = 0 \/ BlockPlan(occ[1], size, alignment).kind = "none"
    THEN [kind |-> "grow", blk |-> 0, idx |-> 0, offset |-> 0]
    ELSE LET p == BlockPlan(occ[1], size, alignment)
         IN  [kind |-> p.kind, blk |-> 1, idx |-> p.idx, offset |-> p.offset]

\* The loop over the blocks in list order: the first block that has room.
Search(occ, size, alignment) ==
    LET fit == {b \in 1..Len(occ) :
                    BlockPlan(occ[b], size, alignment).kind # "none"}
    IN  IF fit = {}
        THEN [kind |-> "grow", blk |-> 0, idx |-> 0, offset |-> 0]
        ELSE LET p == BlockPlan(occ[Min(fit)], size, alignment)
             IN  [kind |-> p.kind, blk |-> Min(fit),
                  idx |-> p.idx, offset |-> p.offset]

\* ------------------------------------------------- memory-type selection
\* The memory types of the physical device, by id.
TypeIds == 0..(NumTypes - 1)

AllocFromRequirementsFilter == {"Preferred", "Allowed", "Forbidden"}
MappingRequirement == {"Map", "DoNotMap"}

\* The tables of the model are sequences, type id + 1 being the index:
\* types[id + 1] is MemoryType::is_host_visible, filter[id + 1] the answer of
\* the caller's filter for the type.
TypeTables == [1..NumTypes -> BOOLEAN]
Filters == [1..NumTypes -> AllocFromRequirementsFilter]

\* (requirements.memory_type_bits & (1 << t.id())) != 0
BitSet(bits, id) == (bits \div (2 ^ id)) % 2 = 1

\* Variant of AdjustedFilter: the mapping requirement is not looked at.
AdjustedFilter_NoMapCheck(types, filter, map, id) == filter[id + 1]

\* The closure that wraps the caller's filter: a type that is not
\* host-visible is Forbidden when the memory has to be mapped.
AdjustedFilter(types, filter, map, id) ==
    IF map = "Map" /\ ~types[id + 1]
    THEN "Forbidden"
    ELSE filter[id + 1]

\* first_loop.chain(second_loop): every type paired with Preferred, then
\* every type paired with Allowed, both in the order of the ids.
LoopChain ==
    [i \in 1..NumTypes |-> <<i - 1, "Preferred">>]
        \o [i \in 1..NumTypes |-> <<i - 1, "Allowed">>]

\* Variant of Candidates: one loop over the types that takes the first type
\* the filter does not forbid.
Candidates_OnePass(types, bits, filter, map) ==
    SelectSeq([i \in 1..NumTypes |-> <<i - 1, "Any">>],
              LAMBDA x : /\ BitSet(bits, x[1])
                         /\ AdjustedFilter(types, filter, map, x[1]) # "Forbidden")

\* The pairs of the chain that pass the two .filter() calls.
Candidates(types, bits, filter, map) ==
    SelectSeq(LoopChain,
              LAMBDA x : /\ BitSet(bits, x[1])
                         /\ AdjustedFilter(types, filter, map, x[1]) = x[2])

\* The result of the selection when .expect() panics.
NoType == 0 - 1

\* Variant of choose_allocation_memory_type: type 0 when nothing is found.
choose_allocation_memory_type_OrFirst(types, bits, filter, map) ==
    IF Candidates(types, bits, filter, map) = <<>>
    THEN 0
    ELSE Head(Candidates(types, bits, filter, map))[1]

\* .next().expect("Couldn't find a memory type to allocate from").0
choose_allocation_memory_type(types, bits, filter, map) ==
    IF Candidates(types, bits, filter, map) = <<>>
    THEN NoType
    ELSE Head(Candidates(types, bits, filter, map))[1]


\* ------------------------------------------------------------------- state
VARIABLES
    hostVisible,  \* which of the two pool types this instance is
    workload,     \* which requests the callers of this run make
    occupied,     \* Mutex<Vec<(Arc<memory>, Vec<Range<DeviceSize>>)>>
    lock,         \* holder of the Mutex, 0 when free
    live,         \* bag of the pool allocations held by the callers
    pc,           \* position of each thread
    req,          \* (size, alignment) of the alloc a thread is running
    plan,         \* location found by the search of a thread
    dropping,     \* allocation a thread is dropping
    lastRet,      \* what the step just taken returned to its caller, if anything
    aligned,      \* the last call of align: its arguments and its result
    sel,          \* the last call of choose_allocation_memory_type
    afr,          \* the call of an entry point of the allocation policy
    afr2,         \* a second call of alloc_import_from_fd, run beside afr
    semDevice,      \* api version and enabled extensions of the device
    semaphore_pool, \* Device::semaphore_pool: Mutex<Vec<ash::vk::Semaphore>>
    semaphores,     \* the Semaphore objects that exist
    semPc,          \* position of each thread inside Semaphore::from_pool
    semRet,         \* what the last operation on a semaphore returned
    semHist,        \* what has happened to the semaphores so far
    pool_occupied,  \* the block lists of a host-visible and another pool
    pool_lock,      \* holder of the Mutex of each of the two pools, 0 when free
    pool_pc,        \* the call each thread is running on one of the two pools
    pool_live,      \* what the callers hold of the two pools
    pool_ret,       \* what the last call on each of the two pools returned
    map_failed      \* MappedDeviceMemory::new has failed in the host-visible pool

poolVars == <<hostVisible, workload, occupied, lock, live, pc, req, plan, dropping, lastRet>>

\* The state the block allocator, align, the selection and the single call
\* of the policy never touch.
semVars == <<semDevice, semaphore_pool, semaphores, semPc, semRet, semHist>>

twoVars == <<pool_occupied, pool_lock, pool_pc, pool_live, pool_ret, map_failed>>

restVars == <<afr2, semVars, twoVars>>

vars == <<hostVisible, workload, occupied, lock, live, pc, req, plan, dropping, lastRet,
          aligned, sel, afr, restVars>>

NoReq == [size |-> 0, alignment |-> 0]
NoPlan == [kind |-> "none", blk |-> 0, idx |-> 0, offset |-> 0]
NoAlloc == [mem |-> 0, offset |-> 0, size |-> 0]
NoRet == [kind |-> "none", path |-> "none", mem |-> 0, offset |-> 0,
          size |-> 0, alignment |-> 0]

\* No call of align or of the selection has been made yet.
NoAligned == [val |-> 0, al |-> 0, ret |-> 0]
NoSel == [kind |-> "none", types |-> <<>>, bits |-> 0, filter |-> <<>>,
          map |-> "DoNotMap", ty |-> NoType]

\* The frame of an entry point of the allocation policy before its first call.
NoRequirements == [size |-> 0, alignment |-> 0, memory_type_bits |-> 0,
                   prefer_dedicated |-> FALSE]
NoMemory == [allocation_size |-> 0, memory_type_index |-> NoType,
             dedicated_allocation |-> FALSE, export_handle_types |-> {},
             import_handle_types |-> {}]
NoPoolAlloc == [memory |-> NoMemory, offset |-> 0, mapped |-> <<>>]
NoResult == [kind |-> "none", variant |-> "none", memory |-> NoMemory,
             mapped |-> <<>>, alloc |-> NoPoolAlloc]
NoFrame == [pc |-> "idle", entry |-> "none", requirements |-> NoRequirements,
            map |-> "DoNotMap", dedicated_allocation |-> FALSE,
            types |-> <<>>, filter |-> <<>>, extensions |-> {}, fd |-> <<>>,
            memory_type |-> NoType, generic |-> <<>>, device |-> <<>>,
            ret |-> NoResult, exported |-> <<>>, queried |-> <<>>]

\* The semaphores of a device nobody has used yet.
NoDevice == [api_version_1_1 |-> FALSE, extensions |-> {}]
NoSemaphore == [handle |-> 0, export_handle_types |-> {}, must_put_in_pool |-> FALSE]
NoSemRet == [op |-> "none", kind |-> "none", error |-> "none",
             semaphore |-> NoSemaphore, handle_type |-> "none",
             pooled |-> FALSE, driver |-> FALSE]
NoSemHist == [created |-> 0, destroyed |-> {}, pooled_drops |-> 0, served |-> 0,
              from_pool |-> {}]

SemIdle ==
    /\ semaphore_pool = <<>>
    /\ semaphores = {}
    /\ semPc = [t \in Threads |-> "idle"]
    /\ semRet = NoSemRet
    /\ semHist = NoSemHist

\* The two kinds of pool of a memory type, and two new pools.
PoolKinds == {"host_visible", "non_host_visible"}
NoCall == [pc |-> "idle", pool |-> "none", size |-> 0, alignment |-> 0,
           held |-> NoAlloc]
NoPoolRet == [kind |-> "none", error |-> "none", mem |-> 0, offset |-> 0, size |-> 0]

TwoIdle ==
    /\ pool_occupied = [k \in PoolKinds |-> <<>>]
    /\ pool_lock = [k \in PoolKinds |-> 0]
    /\ pool_pc = [t \in Threads |-> NoCall]
    /\ pool_live = {}
    /\ pool_ret = [k \in PoolKinds |-> NoPoolRet]
    /\ map_failed = FALSE

\* Nothing runs beside the call the specification is about.
RestIdle ==
    /\ afr2 = NoFrame
    /\ semDevice = NoDevice
    /\ SemIdle
    /\ TwoIdle

AllocPcs == {"alloc_insert", "alloc_grow"}
DropPcs == {"drop_body"}

Init ==
    /\ hostVisible \in BOOLEAN
    /\ workload \in Workloads
    /\ occupied = <<>>
    /\ lock = 0
    /\ live = EmptyBag
    /\ pc = [t \in Threads |-> "idle"]
    /\ req = [t \in Threads |-> NoReq]
    /\ plan = [t \in Threads |-> NoPlan]
    /\ dropping = [t \in Threads |-> NoAlloc]
    /\ lastRet = NoRet
    /\ aligned = NoAligned
    /\ sel = NoSel
    /\ afr = NoFrame
    /\ RestIdle

\* Variant of CanLock: the mutex does not exclude anybody.
CanLock_NoMutex(t) == TRUE

\* Mutex::lock succeeds when nobody holds the mutex.
CanLock(t) == lock = 0

\* ----------------------------------------------------------------- actions
\* Variant of AllocCall: the lock is let go when the search has found no room,
\* before the driver is asked for a new block.
AllocCall_UnlockBeforeGrow(t, size, alignment) ==
    /\ pc[t] = "idle"
    /\ IF ArgsValid(size, alignment)
       THEN /\ BagCardinality(live)
                 + Cardinality({u \in Threads : pc[u] \in AllocPcs}) < MaxLive
            /\ CanLock(t)
            /\ req' = [req EXCEPT ![t] = [size |-> size, alignment |-> alignment]]
            /\ LET p == Search(occupied, size, alignment)
               IN  /\ plan' = [plan EXCEPT ![t] = p]
                   /\ lock' = IF p.kind = "grow" THEN 0 ELSE t
                   /\ pc' = [pc EXCEPT ![t] = IF p.kind = "grow"
                                               THEN "alloc_grow"
                                               ELSE "alloc_insert"]
            /\ lastRet' = NoRet
       ELSE /\ lastRet' = [NoRet EXCEPT !.kind = "panic", !.size = size,
                                        !.alignment = alignment]
            /\ UNCHANGED <<lock, pc, req, plan>>
    /\ UNCHANGED <<restVars, aligned, sel, afr, hostVisible, workload, occupied, live, dropping>>

\* alloc is called: the two asserts, then the lock is taken (the caller waits
\* until the mutex is free) and the existing blocks are searched.  The callers
\* hold at most MaxLive allocations at a time.
AllocCall(t, size, alignment) ==
    /\ pc[t] = "idle"
    /\ IF ArgsValid(size, alignment)
       THEN /\ BagCardinality(live)
                 + Cardinality({u \in Threads : pc[u] \in AllocPcs}) < MaxLive
            /\ CanLock(t)
            /\ lock' = t
            /\ req' = [req EXCEPT ![t] = [size |-> size, alignment |-> alignment]]
            /\ LET p == Search(occupied, size, alignment)
               IN  /\ plan' = [plan EXCEPT ![t] = p]
                   /\ pc' = [pc EXCEPT ![t] = IF p.kind = "grow"
                                               THEN "alloc_grow"
                                               ELSE "alloc_insert"]
            /\ lastRet' = NoRet
       ELSE /\ lastRet' = [NoRet EXCEPT !.kind = "panic", !.size = size,
                                        !.alignment = alignment]
            /\ UNCHANGED <<lock, pc, req, plan>>
    /\ UNCHANGED <<restVars, aligned, sel, afr, hostVisible, workload, occupied, live, dropping>>

\* entries.insert / entries.push in the block found, return of the allocation.
AllocInsert(t) ==
    /\ pc[t] = "alloc_insert"
    /\ LET p == plan[t]
           blk == occupied[p.blk]
           r == [start |-> p.offset, end |-> p.offset + req[t].size]
       IN  /\ occupied' = [occupied EXCEPT ![p.blk].entries =
                              InsertAt(blk.entries, p.idx, r)]
           /\ live' = live (+) SetToBag({[mem |-> blk.mem, offset |-> p.offset,
                                          size |-> req[t].size]})
           /\ lastRet' = [kind |-> "ok", path |-> p.kind, mem |-> blk.mem,
                          offset |-> p.offset, size |-> req[t].size,
                          alignment |-> req[t].alignment]
    /\ lock' = 0
    /\ pc' = [pc EXCEPT ![t] = "idle"]
    /\ req' = [req EXCEPT ![t] = NoReq]
    /\ plan' = [plan EXCEPT ![t] = NoPlan]
    /\ UNCHANGED <<restVars, aligned, sel, afr, hostVisible, workload, dropping>>

\* Variant of NewBlock: the mapping covers the first range, not the block.
NewBlock_MapFirstRange(size) ==
    [mem |-> Len(occupied) + 1,
     cap |-> allocation_size(size),
     mapped |-> IF hostVisible
                THEN <<[start |-> 0, end |-> size]>> ELSE <<>>,
     entries |-> <<[start |-> 0, end |-> size]>>]

\* The block pushed by the growth path.
NewBlock(size) ==
    [mem |-> Len(occupied) + 1,
     cap |-> allocation_size(size),
     mapped |-> IF hostVisible
                THEN <<[start |-> 0, end |-> allocation_size(size)]>> ELSE <<>>,
     entries |-> <<[start |-> 0, end |-> size]>>]

\* The answers of the driver to the request of a new block: DeviceMemory::
\* allocate fails, MappedDeviceMemory::new fails (host-visible pool), or both
\* succeed.  The driver is out of memory once MaxBlocks blocks exist.
GrowOutcomes ==
    {"alloc_err"} \cup (IF hostVisible THEN {"map_err"} ELSE {})
                  \cup (IF Len(occupied) < MaxBlocks THEN {"ok"} ELSE {})

\* Variant of OccupiedAfterGrow: the block is registered before it is mapped.
OccupiedAfterGrow_PushBeforeMap(outcome, size) ==
    IF outcome \in {"ok", "map_err"}
    THEN Append(occupied, NewBlock(size)) ELSE occupied

\* The block list after the request: `?` returns before occupied.push when
\* DeviceMemory::allocate or MappedDeviceMemory::new fails.
OccupiedAfterGrow(outcome, size) ==
    IF outcome = "ok" THEN Append(occupied, NewBlock(size)) ELSE occupied

\* No block of the list has room: a new block is requested from the driver.
AllocGrow(t) ==
    /\ pc[t] = "alloc_grow"
    /\ \E outcome \in GrowOutcomes :
          IF outcome = "ok"
          THEN /\ occupied' = OccupiedAfterGrow(outcome, req[t].size)
               /\ live' = live (+) SetToBag({[mem |-> NewBlock(req[t].size).mem,
                                              offset |-> 0,
                                              size |-> req[t].size]})
               /\ lastRet' = [kind |-> "ok", path |-> "new",
                              mem |-> NewBlock(req[t].size).mem, offset |-> 0,
                              size |-> req[t].size,
                              alignment |-> req[t].alignment]
          ELSE /\ lastRet' = [NoRet EXCEPT !.kind = "err", !.path = outcome,
                                           !.size = req[t].size,
                                           !.alignment = req[t].alignment]
               /\ occupied' = OccupiedAfterGrow(outcome, req[t].size)
               /\ UNCHANGED live
    /\ lock' = 0
    /\ pc' = [pc EXCEPT ![t] = "idle"]
    /\ req' = [req EXCEPT ![t] = NoReq]
    /\ plan' = [plan EXCEPT ![t] = NoPlan]
    /\ UNCHANGED <<restVars, aligned, sel, afr, hostVisible, workload, dropping>>

\* A caller lets go of an allocation: its destructor runs and takes the lock
\* of the pool (it waits until the mutex is free).
DropCall(t, a) ==
    /\ pc[t] = "idle"
    /\ BagIn(a, live)
    /\ CanLock(t)
    /\ lock' = t
    /\ live' = live (-) SetToBag({a})
    /\ dropping' = [dropping EXCEPT ![t] = a]
    /\ pc' = [pc EXCEPT ![t] = "drop_body"]
    /\ lastRet' = NoRet
    /\ UNCHANGED <<restVars, aligned, sel, afr, hostVisible, workload, occupied, req, plan>>

\* Variant of FindBlock: the first block, whichever the allocation's is.
FindBlock_First(occ, a) == IF Len(occ) = 0 THEN 0 ELSE 1

\* find(block by pointer).unwrap(): the first block that is the allocation's.
FindBlock(occ, a) ==
    LET hits == {b \in 1..Len(occ) : occ[b].mem = a.mem}
    IN  IF hits = {} THEN 0 ELSE Min(hits)

\* Variant of DropEntries: the range is matched by its end.
DropEntries_ByEnd(entries, a) ==
    SelectSeq(entries, LAMBDA e : e.end # a.offset)

\* The entries of the block without the released range.
DropEntries(entries, a) == Retain(entries, a.offset)

\* Variant of DropBody: a block that has lost its last range is taken out of
\* the list.
DropBody_ReleaseEmpty(t) ==
    /\ pc[t] = "drop_body"
    /\ LET b == FindBlock(occupied, dropping[t])
           left == DropEntries(occupied[b].entries, dropping[t])
       IN  /\ b # 0
           /\ occupied' = IF left = <<>>
                          THEN SubSeq(occupied, 1, b - 1)
                                 \o SubSeq(occupied, b + 1, Len(occupied))
                          ELSE [occupied EXCEPT ![b].entries = left]
    /\ lock' = 0
    /\ pc' = [pc EXCEPT ![t] = "idle"]
    /\ dropping' = [dropping EXCEPT ![t] = NoAlloc]
    /\ lastRet' = NoRet
    /\ UNCHANGED <<restVars, aligned, sel, afr, hostVisible, workload, live, req, plan>>

\* Variant of DropBody: the block of the allocation is taken out of the list
\* together with the range, whatever else it holds.
DropBody_ReleaseBlock(t) ==
    /\ pc[t] = "drop_body"
    /\ LET b == FindBlock(occupied, dropping[t])
       IN  /\ b # 0
           /\ occupied' = SubSeq(occupied, 1, b - 1)
                             \o SubSeq(occupied, b + 1, Len(occupied))
    /\ lock' = 0
    /\ pc' = [pc EXCEPT ![t] = "idle"]
    /\ dropping' = [dropping EXCEPT ![t] = NoAlloc]
    /\ lastRet' = NoRet
    /\ UNCHANGED <<restVars, aligned, sel, afr, hostVisible, workload, live, req, plan>>

\* The range is removed from the block of the allocation, the lock released.
DropBody(t) ==
    /\ pc[t] = "drop_body"
    /\ LET b == FindBlock(occupied, dropping[t])
       IN  /\ b # 0
           /\ occupied' = [occupied EXCEPT ![b].entries =
                              DropEntries(occupied[b].entries, dropping[t])]
    /\ lock' = 0
    /\ pc' = [pc EXCEPT ![t] = "idle"]
    /\ dropping' = [dropping EXCEPT ![t] = NoAlloc]
    /\ lastRet' = NoRet
    /\ UNCHANGED <<restVars, aligned, sel, afr, hostVisible, workload, live, req, plan>>

Next ==
    \/ \E t \in Threads, r \in Requests(workload) : AllocCall(t, r[1], r[2])
    \/ \E t \in Threads : AllocInsert(t)
    \/ \E t \in Threads : AllocGrow(t)
    \/ \E t \in Threads, a \in BagToSet(live) : DropCall(t, a)
    \/ \E t \in Threads : DropBody(t)

Spec == Init /\ [][Next]_vars

\* ---------------------------------------------- callers that wait for the lock
\* The same pool with the wait for the mutex made visible: a call first
\* enters alloc or the destructor, then waits until Mutex::lock gives it the
\* mutex, then runs the body above, which lets the mutex go when it returns.
WaitPcs == {"alloc_wait", "drop_wait"}

\* The requests of the callers that wait, made to a host-visible pool: each
\* block of MIN_BLOCK_SIZE holds two of them.
WaitRequests == {<<4 * MiB, 256>>}

WaitInit ==
    /\ hostVisible = TRUE
    /\ workload = "small"
    /\ occupied = <<>>
    /\ lock = 0
    /\ live = EmptyBag
    /\ pc = [t \in Threads |-> "idle"]
    /\ req = [t \in Threads |-> NoReq]
    /\ plan = [t \in Threads |-> NoPlan]
    /\ dropping = [t \in Threads |-> NoAlloc]
    /\ lastRet = NoRet
    /\ aligned = NoAligned
    /\ sel = NoSel
    /\ afr = NoFrame
    /\ RestIdle

\* alloc is entered: the two asserts; a call that passes them goes on to
\* self.occupied.lock().
AllocEnter(t, size, alignment) ==
    /\ pc[t] = "idle"
    /\ IF ArgsValid(size, alignment)
       THEN /\ BagCardinality(live)
                 + Cardinality({u \in Threads :
                                   pc[u] \in AllocPcs \cup {"alloc_wait"}}) < MaxLive
            /\ req' = [req EXCEPT ![t] = [size |-> size, alignment |-> alignment]]
            /\ pc' = [pc EXCEPT ![t] = "alloc_wait"]
            /\ lastRet' = NoRet
       ELSE /\ lastRet' = [NoRet EXCEPT !.kind = "panic", !.size = size,
                                        !.alignment = alignment]
            /\ UNCHANGED <<pc, req>>
    /\ UNCHANGED <<restVars, aligned, sel, afr, hostVisible, workload, occupied,
                   lock, live, plan, dropping>>

\* Variant of AllocLock: a search that finds no room leaves the call where
\* it is, with the mutex in its hands.
AllocLock_StuckOnGrow(t) ==
    /\ pc[t] = "alloc_wait"
    /\ CanLock(t)
    /\ lock' = t
    /\ LET p == Search(occupied, req[t].size, req[t].alignment)
       IN  /\ plan' = [plan EXCEPT ![t] = p]
           /\ pc' = [pc EXCEPT ![t] = IF p.kind = "grow"
                                       THEN "alloc_wait"
                                       ELSE "alloc_insert"]
    /\ lastRet' = NoRet
    /\ UNCHANGED <<restVars, aligned, sel, afr, hostVisible, workload, occupied,
                   live, req, dropping>>

\* self.occupied.lock() returns in alloc: the mutex is taken and the blocks
\* are searched.
AllocLock(t) ==
    /\ pc[t] = "alloc_wait"
    /\ CanLock(t)
    /\ lock' = t
    /\ LET p == Search(occupied, req[t].size, req[t].alignment)
       IN  /\ plan' = [plan EXCEPT ![t] = p]
           /\ pc' = [pc EXCEPT ![t] = IF p.kind = "grow"
                                       THEN "alloc_grow"
                                       ELSE "alloc_insert"]
    /\ lastRet' = NoRet
    /\ UNCHANGED <<restVars, aligned, sel, afr, hostVisible, workload, occupied,
                   live, req, dropping>>

\* The destructor of an allocation is entered and goes on to
\* self.pool.occupied.lock().
DropEnter(t, a) ==
    /\ pc[t] = "idle"
    /\ BagIn(a, live)
    /\ live' = live (-) SetToBag({a})
    /\ dropping' = [dropping EXCEPT ![t] = a]
    /\ pc' = [pc EXCEPT ![t] = "drop_wait"]
    /\ lastRet' = NoRet
    /\ UNCHANGED <<restVars, aligned, sel, afr, hostVisible, workload, occupied,
                   lock, req, plan>>

\* self.pool.occupied.lock() returns in the destructor.
DropLock(t) ==
    /\ pc[t] = "drop_wait"
    /\ CanLock(t)
    /\ lock' = t
    /\ pc' = [pc EXCEPT ![t] = "drop_body"]
    /\ lastRet' = NoRet
    /\ UNCHANGED <<restVars, aligned, sel, afr, hostVisible, workload, occupied,
                   live, req, plan, dropping>>

WaitNext ==
    \/ \E t \in Threads, r \in WaitRequests : AllocEnter(t, r[1], r[2])
    \/ \E t \in Threads : AllocLock(t)
    \/ \E t \in Threads : AllocInsert(t)
    \/ \E t \in Threads : AllocGrow(t)
    \/ \E t \in Threads, a \in BagToSet(live) : DropEnter(t, a)
    \/ \E t \in Threads : DropLock(t)
    \/ \E t \in Threads : DropBody(t)

\* The mutex is handed out fairly: a caller that waits while the mutex is
\* free again and again gets it in the end.  A call that holds the mutex
\* goes on, and the driver answers a request for a block.  Nothing makes a
\* caller start a call.
WaitFairness ==
    /\ \A t \in Threads : SF_vars(AllocLock(t) \/ DropLock(t))
    /\ WF_vars(\E t \in Threads : AllocInsert(t) \/ AllocGrow(t) \/ DropBody(t))

WaitSpec == WaitInit /\ [][WaitNext]_vars /\ WaitFairness

\* ------------------------------------------------------- align on its own
\* The block allocator when no caller uses it.
PoolIdle(w) ==
    /\ hostVisible = FALSE
    /\ workload = w
    /\ occupied = <<>>
    /\ lock = 0
    /\ live = EmptyBag
    /\ pc = [t \in Threads |-> "idle"]
    /\ req = [t \in Threads |-> NoReq]
    /\ plan = [t \in Threads |-> NoPlan]
    /\ dropping = [t \in Threads |-> NoAlloc]
    /\ lastRet = NoRet

AlignInit ==
    /\ PoolIdle("align")
    /\ aligned = NoAligned
    /\ sel = NoSel
    /\ afr = NoFrame
    /\ RestIdle

\* align(val, al) is evaluated; alloc calls it with the end of a range
\* (val > 0) and the alignment it has asserted to be non-zero.
AlignCall(val, al) ==
    /\ aligned' = [val |-> val, al |-> al, ret |-> align(val, al)]
    /\ UNCHANGED <<sel, afr, poolVars, restVars>>

AlignNext == \E val \in 1..MaxVal, al \in 1..MaxAl : AlignCall(val, al)

AlignSpec == AlignInit /\ [][AlignNext]_vars

\* ------------------------------------------ the selection on its own
SelectInit ==
    /\ PoolIdle("select")
    /\ RestIdle
    /\ aligned = NoAligned
    /\ afr = NoFrame
    /\ \E types \in TypeTables, bits \in 0..(2 ^ NumTypes - 1),
          filter \in Filters, map \in MappingRequirement :
           sel = [kind |-> "call", types |-> types, bits |-> bits,
                  filter |-> filter, map |-> map, ty |-> NoType]

\* choose_allocation_memory_type runs on the memory types of the device, the
\* bits of the requirements, the caller's filter and the mapping requirement
\* it was called with.
ChooseCall ==
    /\ sel.kind = "call"
    /\ sel' = [sel EXCEPT
                 !.kind = IF choose_allocation_memory_type(
                                 sel.types, sel.bits, sel.filter, sel.map) = NoType
                          THEN "panic" ELSE "ok",
                 !.ty = choose_allocation_memory_type(
                            sel.types, sel.bits, sel.filter, sel.map)]
    /\ UNCHANGED <<aligned, afr, poolVars, restVars>>

SelectNext == ChooseCall

SelectSpec == SelectInit /\ [][SelectNext]_vars

\* ------------------------------------------------ the allocation policy
EntryPoints == {"alloc_from_requirements", "alloc_dedicated_with_exportable_fd",
                "alloc_import_from_fd"}

\* The extensions of the device the entry points look at.
Extensions == {"khr_external_memory_fd", "khr_external_memory",
               "ext_external_memory_dma_buf"}

\* What the callers of the policy pass: sizes on both sides of MAX_POOL_ALLOC,
\* a device whose type 1 alone is host-visible, requirements that admit every
\* type or none, a filter that allows all types, one that forbids all, one
\* that prefers the last type, one that prefers all types but the
\* host-visible one, which it forbids; no, one or two file descriptors.
PolicySizes == {4 * KiB, MAX_POOL_ALLOC, MAX_POOL_ALLOC + 1, 300 * MiB}
PolicyTypes == [i \in 1..NumTypes |-> i = 2]
PolicyBits == {0, 2 ^ NumTypes - 1}
PolicyFilters ==
    {[i \in 1..NumTypes |-> "Allowed"],
     [i \in 1..NumTypes |-> "Forbidden"],
     [i \in 1..NumTypes |-> IF i = NumTypes THEN "Preferred" ELSE "Allowed"],
     [i \in 1..NumTypes |-> IF i = 2 THEN "Forbidden" ELSE "Preferred"]}
PolicyFds == {<<>>, <<3>>, <<3, 4>>}

PolicyInit ==
    /\ PoolIdle("policy")
    /\ RestIdle
    /\ aligned = NoAligned
    /\ sel = NoSel
    /\ \E entry \in EntryPoints, size \in PolicySizes, prefer \in BOOLEAN,
          bits \in PolicyBits, filter \in PolicyFilters,
          map \in MappingRequirement, dedicated \in BOOLEAN,
          exts \in SUBSET Extensions, fd \in PolicyFds :
           /\ entry = "alloc_from_requirements" =>
                 (exts \in {{}, Extensions} /\ fd = <<>>)
           /\ entry = "alloc_dedicated_with_exportable_fd" =>
                 (dedicated /\ fd = <<>>)
           /\ entry = "alloc_import_from_fd" => dedicated
           /\ afr = [NoFrame EXCEPT
                       !.pc = "call", !.entry = entry,
                       !.requirements = [size |-> size, alignment |-> 256,
                                         memory_type_bits |-> bits,
                                         prefer_dedicated |-> prefer],
                       !.map = map, !.dedicated_allocation = dedicated,
                       !.types = PolicyTypes, !.filter = filter,
                       !.extensions = exts, !.fd = fd]

\* The frame when the entry point panics / returns r.
Panicked(f) == [f EXCEPT !.pc = "done", !.ret = [NoResult EXCEPT !.kind = "panic"]]
Returned(f, r) == [f EXCEPT !.pc = "done", !.ret = r]

\* The memory type the entry point selects for its frame.
ChosenType(f) ==
    choose_allocation_memory_type(f.types, f.requirements.memory_type_bits,
                                  f.filter, f.map)

\* Variant of UsesPool: whether a dedicated target was passed is not looked at.
UsesPool_IgnoresTarget(requirements, dedicated_allocation) ==
    ~requirements.prefer_dedicated /\ requirements.size <= MAX_POOL_ALLOC

\* The two tests that redirect alloc_from_requirements to alloc_generic.
UsesPool(requirements, dedicated_allocation) ==
    \/ ~requirements.prefer_dedicated /\ requirements.size <= MAX_POOL_ALLOC
    \/ ~dedicated_allocation

\* Variant of MemoryAllocateInfo: the size is rounded as that of a block of
\* the pool is.
MemoryAllocateInfo_BlockSized(entry, requirements, memory_type) ==
    [allocation_size |-> allocation_size(requirements.size),
     memory_type_index |-> memory_type,
     dedicated_allocation |-> TRUE,
     export_handle_types |->
         IF entry = "alloc_dedicated_with_exportable_fd" THEN {"opaque_fd"} ELSE {},
     import_handle_types |->
         IF entry = "alloc_import_from_fd" THEN {"dma_buf"} ELSE {}]

\* Variant of MemoryAllocateInfo: no export handle type is set.
MemoryAllocateInfo_NoExportTypes(entry, requirements, memory_type) ==
    [allocation_size |-> requirements.size,
     memory_type_index |-> memory_type,
     dedicated_allocation |-> TRUE,
     export_handle_types |-> {},
     import_handle_types |->
         IF entry = "alloc_import_from_fd" THEN {"dma_buf"} ELSE {}]

\* The MemoryAllocateInfo an entry point hands to DeviceMemory::allocate or
\* DeviceMemory::import.
MemoryAllocateInfo(entry, requirements, memory_type) ==
    [allocation_size |-> requirements.size,
     memory_type_index |-> memory_type,
     dedicated_allocation |-> TRUE,
     export_handle_types |->
         IF entry = "alloc_dedicated_with_exportable_fd" THEN {"opaque_fd"} ELSE {},
     import_handle_types |->
         IF entry = "alloc_import_from_fd" THEN {"dma_buf"} ELSE {}]

\* 0..requirements.size, the range MappedDeviceMemory::new is given.
MappedRange(requirements) == [start |-> 0, end |-> requirements.size]

\* Variant of alloc_offset: 0 for every variant.
alloc_offset_Zero(r) == 0

\* PotentialDedicatedAllocation::offset
alloc_offset(r) ==
    CASE r.variant = "Generic" -> r.alloc.offset
      [] r.variant = "Dedicated" -> 0
      [] r.variant = "DedicatedMapped" -> 0

\* PotentialDedicatedAllocation::mapped_memory: <<>> is None, <<m>> is Some(m),
\* m being the range the memory is mapped over.
mapped_memory(r) ==
    CASE r.variant = "Generic" -> r.alloc.mapped
      [] r.variant = "Dedicated" -> <<>>
      [] r.variant = "DedicatedMapped" -> r.mapped

\* PotentialDedicatedAllocation::memory
alloc_memory(r) ==
    CASE r.variant = "Generic" -> r.alloc.memory
      [] r.variant = "Dedicated" -> r.memory
      [] r.variant = "DedicatedMapped" -> r.memory

\* alloc_from_requirements up to its first call outside: the selection, then
\* the choice between alloc_generic and a dedicated allocation.
AllocFromRequirements ==
    /\ afr.pc = "call"
    /\ afr.entry = "alloc_from_requirements"
    /\ afr' = IF ChosenType(afr) = NoType
              THEN Panicked(afr)
              ELSE IF UsesPool(afr.requirements, afr.dedicated_allocation)
                   THEN [afr EXCEPT
                           !.pc = "alloc_generic",
                           !.memory_type = ChosenType(afr),
                           !.generic = Append(@,
                               [ty |-> ChosenType(afr),
                                size |-> afr.requirements.size,
                                alignment |-> afr.requirements.alignment,
                                map |-> afr.map])]
                   ELSE [afr EXCEPT
                           !.pc = "allocate",
                           !.memory_type = ChosenType(afr),
                           !.device = Append(@,
                               [call |-> "allocate", file |-> 0,
                                info |-> MemoryAllocateInfo(afr.entry,
                                             afr.requirements, ChosenType(afr))])]
    /\ UNCHANGED <<aligned, sel, poolVars, restVars>>

\* alloc_dedicated_with_exportable_fd up to DeviceMemory::allocate: the two
\* asserts on the extensions, then the selection.
AllocDedicatedWithExportableFd ==
    /\ afr.pc = "call"
    /\ afr.entry = "alloc_dedicated_with_exportable_fd"
    /\ afr' = IF ~({"khr_external_memory_fd", "khr_external_memory"}
                      \subseteq afr.extensions)
              THEN Panicked(afr)
              ELSE IF ChosenType(afr) = NoType
                   THEN Panicked(afr)
                   ELSE [afr EXCEPT
                           !.pc = "allocate",
                           !.memory_type = ChosenType(afr),
                           !.device = Append(@,
                               [call |-> "allocate", file |-> 0,
                                info |-> MemoryAllocateInfo(afr.entry,
                                             afr.requirements, ChosenType(afr))])]
    /\ UNCHANGED <<aligned, sel, poolVars, restVars>>

\* Variant of AllocImportFromFd: a request the pool may serve is handed to
\* alloc_generic, as alloc_from_requirements does.
AllocImportFromFd_PoolsSmall ==
    /\ afr.pc = "call"
    /\ afr.entry = "alloc_import_from_fd"
    /\ \E cloned \in BOOLEAN :
          afr' = IF ~(Extensions \subseteq afr.extensions)
                 THEN Panicked(afr)
                 ELSE IF ChosenType(afr) = NoType
                      THEN Panicked(afr)
                      ELSE IF afr.fd = <<>> \/ ~cloned
                           THEN Panicked(afr)
                           ELSE IF ~afr.requirements.prefer_dedicated
                                   /\ afr.requirements.size <= MAX_POOL_ALLOC
                                THEN [afr EXCEPT
                                        !.pc = "alloc_generic",
                                        !.memory_type = ChosenType(afr),
                                        !.generic = Append(@,
                                            [ty |-> ChosenType(afr),
                                             size |-> afr.requirements.size,
                                             alignment |-> afr.requirements.alignment,
                                             map |-> afr.map])]
                                ELSE [afr EXCEPT
                                        !.pc = "import",
                                        !.memory_type = ChosenType(afr),
                                        !.device = Append(@,
                                            [call |-> "import", file |-> afr.fd[1],
                                             info |-> MemoryAllocateInfo(afr.entry,
                                                 afr.requirements, ChosenType(afr))])]
    /\ UNCHANGED <<aligned, sel, poolVars, restVars>>

\* Variant of ImportFromFd: the last file descriptor of the Vec is imported.
ImportFromFd_LastFd(f, cloned) ==
    IF ~(Extensions \subseteq f.extensions)
    THEN Panicked(f)
    ELSE IF ChosenType(f) = NoType
         THEN Panicked(f)
         ELSE IF f.fd = <<>> \/ ~cloned
              THEN Panicked(f)
              ELSE [f EXCEPT
                      !.pc = "import",
                      !.memory_type = ChosenType(f),
                      !.device = Append(@,
                          [call |-> "import", file |-> f.fd[Len(f.fd)],
                           info |-> MemoryAllocateInfo(f.entry,
                                        f.requirements, ChosenType(f))])]

\* The frame of alloc_import_from_fd when it reaches DeviceMemory::import or
\* panics: the three asserts, the selection, fd.get(0).expect(..) and
\* try_clone().expect(..), whose success is `cloned`.
ImportFromFd(f, cloned) ==
    IF ~(Extensions \subseteq f.extensions)
    THEN Panicked(f)
    ELSE IF ChosenType(f) = NoType
         THEN Panicked(f)
         ELSE IF f.fd = <<>> \/ ~cloned
              THEN Panicked(f)
              ELSE [f EXCEPT
                      !.pc = "import",
                      !.memory_type = ChosenType(f),
                      !.device = Append(@,
                          [call |-> "import", file |-> f.fd[1],
                           info |-> MemoryAllocateInfo(f.entry,
                                        f.requirements, ChosenType(f))])]

\* alloc_import_from_fd up to DeviceMemory::import: the three asserts, the
\* selection, the first file descriptor of the Vec and its clone.
AllocImportFromFd ==
    /\ afr.pc = "call"
    /\ afr.entry = "alloc_import_from_fd"
    /\ \E cloned \in BOOLEAN : afr' = ImportFromFd(afr, cloned)
    /\ UNCHANGED <<aligned, sel, poolVars, restVars>>

\* What the allocations of a pool answer to offset() and mapped_memory():
\* the pool is behind the trait, any of these may come back.
PoolAllocs ==
    {[memory |-> [NoMemory EXCEPT !.allocation_size = MIN_BLOCK_SIZE,
                                  !.memory_type_index = 0],
      offset |-> o, mapped |-> m] :
        o \in {0, 4 * KiB},
        m \in {<<>>, <<[start |-> 0, end |-> MIN_BLOCK_SIZE]>>}}

\* impl From<A> for PotentialDedicatedAllocation<A>
From(alloc) ==
    [NoResult EXCEPT !.kind = "ok", !.variant = "Generic", !.alloc = alloc]

\* The pool's alloc_generic returns: an allocation, wrapped in Generic by
\* into(), or the error `?` passes on.
AllocGenericReturns ==
    /\ afr.pc = "alloc_generic"
    /\ \/ \E a \in PoolAllocs : afr' = Returned(afr, From(a))
       \/ afr' = Returned(afr, [NoResult EXCEPT !.kind = "err"])
    /\ UNCHANGED <<aligned, sel, poolVars, restVars>>

\* The frame when DeviceMemory::allocate or DeviceMemory::import has returned
\* an error (`?`) or the memory object, which is returned as Dedicated or
\* goes on to be mapped.
DeviceMemoryReturned(f, ok) ==
    IF ~ok
    THEN Returned(f, [NoResult EXCEPT !.kind = "err"])
    ELSE IF f.map = "Map"
         THEN [f EXCEPT !.pc = "map"]
         ELSE Returned(f, [NoResult EXCEPT
                             !.kind = "ok", !.variant = "Dedicated",
                             !.memory = f.device[Len(f.device)].info])

\* The frame when MappedDeviceMemory::new has returned an error or the
\* mapping of the range.
MappedDeviceMemoryReturned(f, ok) ==
    IF ~ok
    THEN Returned(f, [NoResult EXCEPT !.kind = "err"])
    ELSE Returned(f, [NoResult EXCEPT
                        !.kind = "ok", !.variant = "DedicatedMapped",
                        !.memory = f.device[Len(f.device)].info,
                        !.mapped = <<MappedRange(f.requirements)>>])

\* DeviceMemory::allocate or DeviceMemory::import returns.
DeviceMemoryReturns ==
    /\ afr.pc \in {"allocate", "import"}
    /\ \E ok \in BOOLEAN : afr' = DeviceMemoryReturned(afr, ok)
    /\ UNCHANGED <<aligned, sel, poolVars, restVars>>

\* MappedDeviceMemory::new returns.
MappedDeviceMemoryReturns ==
    /\ afr.pc = "map"
    /\ \E ok \in BOOLEAN : afr' = MappedDeviceMemoryReturned(afr, ok)
    /\ UNCHANGED <<aligned, sel, poolVars, restVars>>

\* StorageImage::export_posix_fd on the image the allocation was made for:
\* export_fd(ExternalMemoryHandleType::OpaqueFd) is called on memory().  The
\* handle type is written as the flag of ExternalMemoryHandleTypes is.
ExportPosixFd ==
    /\ afr.pc = "done"
    /\ afr.ret.kind = "ok"
    /\ afr.exported = <<>>
    /\ afr' = [afr EXCEPT !.exported =
                  <<[handle_type |-> "opaque_fd", memory |-> alloc_memory(afr.ret)]>>]
    /\ UNCHANGED <<aligned, sel, poolVars, restVars>>

\* The holder of the allocation asks it the three questions of
\* MemoryPoolAlloc, as the image constructors do before bind_memory.
QueryAllocation ==
    /\ afr.pc = "done"
    /\ afr.ret.kind = "ok"
    /\ afr.queried = <<>>
    /\ afr' = [afr EXCEPT !.queried =
                  <<[memory |-> alloc_memory(afr.ret),
                     offset |-> alloc_offset(afr.ret),
                     mapped_memory |-> mapped_memory(afr.ret)]>>]
    /\ UNCHANGED <<aligned, sel, poolVars, restVars>>

PolicyNext ==
    \/ AllocFromRequirements
    \/ AllocDedicatedWithExportableFd
    \/ AllocImportFromFd
    \/ AllocGenericReturns
    \/ DeviceMemoryReturns
    \/ MappedDeviceMemoryReturns
    \/ ExportPosixFd
    \/ QueryAllocation

PolicySpec == PolicyInit /\ [][PolicyNext]_vars

\* ------------------------------------------- two imports side by side
\* Two calls of alloc_import_from_fd with the same arguments but for the
\* file descriptors that follow the first one.  The two calls get the same
\* answers from the system and from the driver.
ImportPairInit ==
    /\ PoolIdle("import_pair")
    /\ semDevice = NoDevice
    /\ SemIdle
    /\ TwoIdle
    /\ aligned = NoAligned
    /\ sel = NoSel
    /\ \E size \in PolicySizes, prefer \in BOOLEAN, bits \in PolicyBits,
          filter \in PolicyFilters, map \in MappingRequirement,
          exts \in SUBSET Extensions, fd \in PolicyFds, fd2 \in PolicyFds :
           /\ SubSeq(fd, 1, Min({1, Len(fd)})) = SubSeq(fd2, 1, Min({1, Len(fd2)}))
           /\ afr = [NoFrame EXCEPT
                       !.pc = "call", !.entry = "alloc_import_from_fd",
                       !.requirements = [size |-> size, alignment |-> 256,
                                         memory_type_bits |-> bits,
                                         prefer_dedicated |-> prefer],
                       !.map = map, !.dedicated_allocation = TRUE,
                       !.types = PolicyTypes, !.filter = filter,
                       !.extensions = exts, !.fd = fd]
           /\ afr2 = [afr EXCEPT !.fd = fd2]

\* Both calls run up to DeviceMemory::import.
PairImportFromFd ==
    /\ afr.pc = "call"
    /\ \E cloned \in BOOLEAN :
          /\ afr' = ImportFromFd(afr, cloned)
          /\ afr2' = ImportFromFd(afr2, cloned)
    /\ UNCHANGED <<aligned, sel, poolVars, semVars, twoVars>>

\* DeviceMemory::import returns to both calls.
PairDeviceMemoryReturns ==
    /\ afr.pc = "import"
    /\ \E ok \in BOOLEAN :
          /\ afr' = DeviceMemoryReturned(afr, ok)
          /\ afr2' = IF afr2.pc = "import"
                     THEN DeviceMemoryReturned(afr2, ok) ELSE afr2
    /\ UNCHANGED <<aligned, sel, poolVars, semVars, twoVars>>

\* MappedDeviceMemory::new returns to both calls.
PairMappedDeviceMemoryReturns ==
    /\ afr.pc = "map"
    /\ \E ok \in BOOLEAN :
          /\ afr' = MappedDeviceMemoryReturned(afr, ok)
          /\ afr2' = IF afr2.pc = "map"
                     THEN MappedDeviceMemoryReturned(afr2, ok) ELSE afr2
    /\ UNCHANGED <<aligned, sel, poolVars, semVars, twoVars>>

ImportPairNext ==
    \/ PairImportFromFd
    \/ PairDeviceMemoryReturns
    \/ PairMappedDeviceMemoryReturns

ImportPairSpec == ImportPairInit /\ [][ImportPairNext]_vars

\* ------------------------------------------------------- the semaphores
\* ExternalSemaphoreHandleType and the flags of ExternalSemaphoreHandleTypes.
ExternalSemaphoreHandleType ==
    {"OpaqueFd", "OpaqueWin32", "OpaqueWin32Kmt", "D3D12Fence", "SyncFd"}

\* impl From<ExternalSemaphoreHandleType> for ExternalSemaphoreHandleTypes
HandleTypesFrom(val) ==
    CASE val = "OpaqueFd" -> {"opaque_fd"}
      [] val = "OpaqueWin32" -> {"opaque_win32"}
      [] val = "OpaqueWin32Kmt" -> {"opaque_win32_kmt"}
      [] val = "D3D12Fence" -> {"d3d12_fence"}
      [] val = "SyncFd" -> {"sync_fd"}

\* The devices of the runs: with or without Vulkan 1.1, with any of the two
\* extensions the semaphores look at.
SemExtensions == {"khr_external_semaphore", "khr_external_semaphore_fd"}
SemDevices ==
    {[api_version_1_1 |-> v, extensions |-> e] :
        v \in BOOLEAN, e \in SUBSET SemExtensions}

\* The export handle types the callers of Semaphore::new ask for.
SemCreateInfos == {{}, {"opaque_fd"}, {"sync_fd", "opaque_win32"}}

\* The answers of the driver: success, out of memory, another error.
DriverOutcomes == {"ok", "oom", "other"}

\* Variant of validate_new: the requirement is put on the calls that ask for
\* no export handle type.
validate_new_EmptyChecked(device, export_handle_types) ==
    IF export_handle_types = {}
       /\ ~(device.api_version_1_1
              \/ "khr_external_semaphore" \in device.extensions)
    THEN "RequirementNotMet"
    ELSE "Ok"

\* Semaphore::validate_new
validate_new(device, export_handle_types) ==
    IF export_handle_types # {}
       /\ ~(device.api_version_1_1
              \/ "khr_external_semaphore" \in device.extensions)
    THEN "RequirementNotMet"
    ELSE "Ok"

\* Variant of validate_export_fd: the handle type is looked at before the
\* extension.
validate_export_fd_TypeFirst(device, sem, handle_type) ==
    IF sem.export_handle_types \cap HandleTypesFrom(handle_type) = {}
    THEN "HandleTypeNotSupported"
    ELSE IF handle_type \notin {"OpaqueFd", "SyncFd"}
         THEN "HandleTypeNotSupported"
         ELSE IF "khr_external_semaphore_fd" \notin device.extensions
              THEN "RequirementNotMet"
              ELSE "Ok"

\* Variant of validate_export_fd: the export handle types of the semaphore
\* are not looked at.
validate_export_fd_AnySemaphore(device, sem, handle_type) ==
    IF "khr_external_semaphore_fd" \notin device.extensions
    THEN "RequirementNotMet"
    ELSE IF handle_type \notin {"OpaqueFd", "SyncFd"}
         THEN "HandleTypeNotSupported"
         ELSE "Ok"

\* Semaphore::validate_export_fd; handle_type.validate_device has nothing to
\* require of the device for the five handle types.
validate_export_fd(device, sem, handle_type) ==
    IF "khr_external_semaphore_fd" \notin device.extensions
    THEN "RequirementNotMet"
    ELSE IF sem.export_handle_types \cap HandleTypesFrom(handle_type) = {}
         THEN "HandleTypeNotSupported"
         ELSE IF handle_type \notin {"OpaqueFd", "SyncFd"}
              THEN "HandleTypeNotSupported"
              ELSE "Ok"

\* What a call returns when the driver has answered: the value, OomError, or
\* the panic of From<VulkanError>.
DriverReturn(outcome) ==
    CASE outcome = "ok" -> [kind |-> "ok", error |-> "none"]
      [] outcome = "oom" -> [kind |-> "err", error |-> "OomError"]
      [] outcome = "other" -> [kind |-> "panic", error |-> "none"]

\* The answers create_semaphore can give: the driver is out of memory once
\* it has created MaxHandles semaphores.
CreateOutcomes ==
    IF semHist.created < MaxHandles THEN DriverOutcomes ELSE {"oom", "other"}

\* Variant of Created: from_pool leaves must_put_in_pool of the semaphore
\* it has created as Semaphore::new has set it.
Created_NeverPooled(op, export_handle_types, pooled, outcome) ==
    LET sem == [handle |-> semHist.created + 1,
                export_handle_types |-> export_handle_types,
                must_put_in_pool |-> FALSE]
    IN  /\ semRet' = [NoSemRet EXCEPT
                         !.op = op,
                         !.kind = DriverReturn(outcome).kind,
                         !.error = DriverReturn(outcome).error,
                         !.semaphore = IF outcome = "ok" THEN sem ELSE NoSemaphore,
                         !.driver = TRUE]
        /\ semaphores' = IF outcome = "ok" THEN semaphores \cup {sem} ELSE semaphores
        /\ semHist' = IF outcome = "ok"
                       THEN [semHist EXCEPT
                                !.created = @ + 1,
                                !.from_pool = IF pooled THEN @ \cup {sem.handle} ELSE @]
                       ELSE semHist

\* Semaphore::new_unchecked with the answer of create_semaphore: the state
\* after it, the new Semaphore having must_put_in_pool = pooled.  The history
\* keeps the handles that from_pool has returned.
Created(op, export_handle_types, pooled, outcome) ==
    LET sem == [handle |-> semHist.created + 1,
                export_handle_types |-> export_handle_types,
                must_put_in_pool |-> pooled]
    IN  /\ semRet' = [NoSemRet EXCEPT
                         !.op = op,
                         !.kind = DriverReturn(outcome).kind,
                         !.error = DriverReturn(outcome).error,
                         !.semaphore = IF outcome = "ok" THEN sem ELSE NoSemaphore,
                         !.driver = TRUE]
        /\ semaphores' = IF outcome = "ok" THEN semaphores \cup {sem} ELSE semaphores
        /\ semHist' = IF outcome = "ok"
                       THEN [semHist EXCEPT
                                !.created = @ + 1,
                                !.from_pool = IF pooled THEN @ \cup {sem.handle} ELSE @]
                       ELSE semHist

SemaphoreInit ==
    /\ PoolIdle("semaphore")
    /\ aligned = NoAligned
    /\ sel = NoSel
    /\ afr = NoFrame
    /\ afr2 = NoFrame
    /\ semDevice \in SemDevices
    /\ SemIdle
    /\ TwoIdle

\* Semaphore::new(device, create_info)
SemaphoreNew(export_handle_types) ==
    /\ IF validate_new(semDevice, export_handle_types) # "Ok"
       THEN /\ semRet' = [NoSemRet EXCEPT
                             !.op = "new", !.kind = "err",
                             !.error = validate_new(semDevice, export_handle_types)]
            /\ UNCHANGED <<semaphores, semHist>>
       ELSE \E outcome \in CreateOutcomes :
               Created("new", export_handle_types, FALSE, outcome)
    /\ UNCHANGED <<semDevice, semaphore_pool, semPc>>
    /\ UNCHANGED <<aligned, sel, afr, afr2, poolVars, twoVars>>

\* Variant of PoolPop: the handle that has been in the pool longest.
PoolPop_Oldest(pool) == [handle |-> Head(pool), rest |-> Tail(pool)]

\* Variant of PoolPop: the last handle is read and left in the pool.
PoolPop_Peek(pool) == [handle |-> pool[Len(pool)], rest |-> pool]

\* Vec::pop on a pool that is not empty.
PoolPop(pool) ==
    [handle |-> pool[Len(pool)], rest |-> SubSeq(pool, 1, Len(pool) - 1)]

\* Semaphore::from_pool up to the match: the pool is locked, popped and
\* unlocked.  A handle becomes a Semaphore; without one the thread goes on to
\* Semaphore::new.
FromPool(t) ==
    /\ semPc[t] = "idle"
    /\ IF semaphore_pool # <<>>
       THEN LET sem == [handle |-> PoolPop(semaphore_pool).handle,
                        export_handle_types |-> {},
                        must_put_in_pool |-> TRUE]
            IN  /\ semaphore_pool' = PoolPop(semaphore_pool).rest
                /\ semaphores' = semaphores \cup {sem}
                /\ semRet' = [NoSemRet EXCEPT !.op = "from_pool", !.kind = "ok",
                                              !.semaphore = sem, !.pooled = TRUE]
                /\ semHist' = [semHist EXCEPT !.served = @ + 1,
                                              !.from_pool = @ \cup {sem.handle}]
                /\ UNCHANGED semPc
       ELSE /\ semPc' = [semPc EXCEPT ![t] = "new"]
            /\ semRet' = NoSemRet
            /\ UNCHANGED <<semaphore_pool, semaphores, semHist>>
    /\ UNCHANGED semDevice
    /\ UNCHANGED <<aligned, sel, afr, afr2, poolVars, twoVars>>

\* Semaphore::from_pool, the pool was empty: Semaphore::new(device,
\* Default::default())?, then must_put_in_pool = true.
FromPoolNew(t) ==
    /\ semPc[t] = "new"
    /\ semPc' = [semPc EXCEPT ![t] = "idle"]
    /\ IF validate_new(semDevice, {}) # "Ok"
       THEN /\ semRet' = [NoSemRet EXCEPT
                             !.op = "from_pool", !.kind = "err",
                             !.error = validate_new(semDevice, {})]
            /\ UNCHANGED <<semaphores, semHist>>
       ELSE \E outcome \in CreateOutcomes :
               Created("from_pool", {}, TRUE, outcome)
    /\ UNCHANGED <<semDevice, semaphore_pool>>
    /\ UNCHANGED <<aligned, sel, afr, afr2, poolVars, twoVars>>

\* Semaphore::from_handle(device, handle, create_info): the caller wraps a
\* handle it has had the driver create on this device, a handle no Semaphore
\* and no pool has; nothing is checked and the driver is not called.
FromHandle(export_handle_types) ==
    /\ semHist.created < MaxHandles
    /\ LET sem == [handle |-> semHist.created + 1,
                   export_handle_types |-> export_handle_types,
                   must_put_in_pool |-> FALSE]
       IN  /\ semaphores' = semaphores \cup {sem}
           /\ semRet' = [NoSemRet EXCEPT !.op = "from_handle", !.kind = "ok",
                                         !.semaphore = sem]
           /\ semHist' = [semHist EXCEPT !.created = @ + 1]
    /\ UNCHANGED <<semDevice, semaphore_pool, semPc>>
    /\ UNCHANGED <<aligned, sel, afr, afr2, poolVars, twoVars>>

\* impl Drop for Semaphore: the handle goes to the pool or is destroyed.
DropSemaphore(sem) ==
    /\ sem \in semaphores
    /\ semaphores' = semaphores \ {sem}
    /\ IF sem.must_put_in_pool
       THEN /\ semHist.pooled_drops < MaxRecycles
            /\ semaphore_pool' = Append(semaphore_pool, sem.handle)
            /\ semHist' = [semHist EXCEPT !.pooled_drops = @ + 1]
       ELSE /\ semHist' = [semHist EXCEPT !.destroyed = @ \cup {sem.handle}]
            /\ UNCHANGED semaphore_pool
    /\ semRet' = [NoSemRet EXCEPT !.op = "drop"]
    /\ UNCHANGED <<semDevice, semPc>>
    /\ UNCHANGED <<aligned, sel, afr, afr2, poolVars, twoVars>>

\* Semaphore::export_fd: validate_export_fd, then export_fd_unchecked, which
\* asks the driver.  The return is recorded with the fields of the semaphore
\* the validation reads.
ExportFd(sem, handle_type) ==
    /\ sem \in semaphores
    /\ IF validate_export_fd(semDevice, sem, handle_type) # "Ok"
       THEN semRet' = [NoSemRet EXCEPT
                         !.op = "export_fd", !.kind = "err",
                         !.error = validate_export_fd(semDevice, sem, handle_type),
                         !.semaphore = [sem EXCEPT !.handle = 0],
                         !.handle_type = handle_type]
       ELSE \E outcome \in DriverOutcomes :
               semRet' = [NoSemRet EXCEPT
                            !.op = "export_fd",
                            !.kind = DriverReturn(outcome).kind,
                            !.error = DriverReturn(outcome).error,
                            !.semaphore = [sem EXCEPT !.handle = 0],
                            !.handle_type = handle_type,
                            !.driver = TRUE]
    /\ UNCHANGED <<semDevice, semaphore_pool, semaphores, semPc, semHist>>
    /\ UNCHANGED <<aligned, sel, afr, afr2, poolVars, twoVars>>

SemaphoreNext ==
    \/ \E e \in SemCreateInfos : SemaphoreNew(e)
    \/ \E e \in SemCreateInfos : FromHandle(e)
    \/ \E t \in Threads : FromPool(t)
    \/ \E t \in Threads : FromPoolNew(t)
    \/ \E sem \in semaphores : DropSemaphore(sem)

SemaphoreSpec == SemaphoreInit /\ [][SemaphoreNext]_vars

\* One caller creates, takes, exports and drops semaphores.
SemaphoreExportNext ==
    \/ \E e \in SemCreateInfos : SemaphoreNew(e)
    \/ FromPool(1)
    \/ FromPoolNew(1)
    \/ \E sem \in semaphores : DropSemaphore(sem)
    \/ \E sem \in semaphores, h \in ExternalSemaphoreHandleType : ExportFd(sem, h)

SemaphoreExportSpec == SemaphoreInit /\ [][SemaphoreExportNext]_vars

\* ------------------------------------------- the two kinds of pool
\* What the callers of the two pools ask for.
TwoPoolRequests == {<<MiB, 256>>, <<MiB, 4 * MiB>>, <<12 * MiB, 256>>}

\* What alloc returns.
PoolOk(mem, offset, size) ==
    [kind |-> "ok", error |-> "none", mem |-> mem, offset |-> offset, size |-> size]
PoolErr(error) == [NoPoolRet EXCEPT !.kind = "err", !.error = error]

\* StandardHostVisibleMemoryTypePool::alloc from the lock to the return, on
\* the block list occ, the driver answering the request of a new block, if
\* one is made, with outcome.
HostVisibleAlloc(occ, size, alignment, outcome) ==
    LET p == Search(occ, size, alignment)
    IN  IF p.kind # "grow"
        THEN [occupied |-> [occ EXCEPT ![p.blk].entries =
                               InsertAt(@, p.idx, [start |-> p.offset,
                                                   end |-> p.offset + size])],
              ret |-> PoolOk(occ[p.blk].mem, p.offset, size)]
        ELSE IF outcome = "ok"
             THEN [occupied |-> Append(occ,
                       [mem |-> Len(occ) + 1,
                        cap |-> allocation_size(size),
                        mapped |-> <<[start |-> 0, end |-> allocation_size(size)]>>,
                        entries |-> <<[start |-> 0, end |-> size]>>]),
                   ret |-> PoolOk(Len(occ) + 1, 0, size)]
             ELSE [occupied |-> occ, ret |-> PoolErr(outcome)]

\* impl Drop for StandardHostVisibleMemoryTypePoolAlloc, on the block list occ.
HostVisibleDrop(occ, a) ==
    [occ EXCEPT ![FindBlock(occ, a)].entries = DropEntries(@, a)]

\* Variant of nhv_align: the multiple of al below val.
nhv_align_Down(val, al) == al * (val \div al)

\* fn align of StandardNonHostVisibleMemoryTypePool::alloc
nhv_align(val, al) == al * (1 + ((val - 1) \div al))

\* The loop `for i in 0..entries.len().saturating_sub(1)` from i on: the first
\* i whose aligned end leaves room for size before the next entry, 0 if none.
RECURSIVE NhvFirstGap(_, _, _, _)
NhvFirstGap(entries, i, size, alignment) ==
    IF i > Len(entries) - 1
    THEN 0
    ELSE IF nhv_align(entries[i].end, alignment) + size <= entries[i + 1].start
         THEN i
         ELSE NhvFirstGap(entries, i + 1, size, alignment)

\* The loop `for .. in occupied.iter_mut()` from block b on: the block list
\* and the allocation when a block has room, found = FALSE when none has.
RECURSIVE NhvFind(_, _, _, _)
NhvFind(occ, b, size, alignment) ==
    IF b > Len(occ)
    THEN [found |-> FALSE, occupied |-> occ, ret |-> NoPoolRet]
    ELSE LET entries == occ[b].entries
             i == NhvFirstGap(entries, 1, size, alignment)
             entry1_end == nhv_align(entries[i].end, alignment)
             last_end == IF entries = <<>> THEN 0
                         ELSE nhv_align(entries[Len(entries)].end, alignment)
         IN  IF i # 0
             THEN [found |-> TRUE,
                   occupied |-> [occ EXCEPT ![b].entries =
                       SubSeq(entries, 1, i)
                         \o <<[start |-> entry1_end, end |-> entry1_end + size]>>
                         \o SubSeq(entries, i + 1, Len(entries))],
                   ret |-> PoolOk(occ[b].mem, entry1_end, size)]
             ELSE IF last_end + size <= occ[b].cap
                  THEN [found |-> TRUE,
                        occupied |-> [occ EXCEPT ![b].entries =
                            Append(entries, [start |-> last_end,
                                             end |-> last_end + size])],
                        ret |-> PoolOk(occ[b].mem, last_end, size)]
                  ELSE NhvFind(occ, b + 1, size, alignment)

\* StandardNonHostVisibleMemoryTypePool::alloc from the lock to the return.
NonHostVisibleAlloc(occ, size, alignment, outcome) ==
    LET f == NhvFind(occ, 1, size, alignment)
        pow == next_power_of_two(size)
    IN  IF f.found
        THEN [occupied |-> f.occupied, ret |-> f.ret]
        ELSE IF outcome = "ok"
             THEN [occupied |-> Append(occ,
                       [mem |-> Len(occ) + 1,
                        cap |-> IF MIN_BLOCK_SIZE >= pow THEN MIN_BLOCK_SIZE ELSE pow,
                        mapped |-> <<>>,
                        entries |-> <<[start |-> 0, end |-> size]>>]),
                   ret |-> PoolOk(Len(occ) + 1, 0, size)]
             ELSE [occupied |-> occ, ret |-> PoolErr(outcome)]

\* impl Drop for StandardNonHostVisibleMemoryTypePoolAlloc
NonHostVisibleDrop(occ, a) ==
    LET b == CHOOSE k \in 1..Len(occ) :
                 /\ occ[k].mem = a.mem
                 /\ \A j \in 1..(k - 1) : occ[j].mem # a.mem
    IN  [occ EXCEPT ![b].entries = SelectSeq(@, LAMBDA e : e.start # a.offset)]

\* alloc and drop of a pool of kind k.
PoolAlloc(k, occ, size, alignment, outcome) ==
    IF k = "host_visible"
    THEN HostVisibleAlloc(occ, size, alignment, outcome)
    ELSE NonHostVisibleAlloc(occ, size, alignment, outcome)

PoolDrop(k, occ, a) ==
    IF k = "host_visible" THEN HostVisibleDrop(occ, a) ELSE NonHostVisibleDrop(occ, a)

\* The allocation a caller holds after alloc has returned r.
HeldOf(r) ==
    IF r.kind = "ok"
    THEN [mem |-> r.mem, offset |-> r.offset, size |-> r.size] ELSE NoAlloc

\* The two pools, new, and nothing else running.
TwoInit ==
    /\ PoolIdle("two_pools")
    /\ aligned = NoAligned
    /\ sel = NoSel
    /\ afr = NoFrame
    /\ afr2 = NoFrame
    /\ semDevice = NoDevice
    /\ SemIdle
    /\ TwoIdle

\* The answers of the driver to a call of alloc in the two pools at once:
\* DeviceMemory::allocate fails for both, succeeds for both, or succeeds for
\* both with MappedDeviceMemory::new, which the host-visible pool alone
\* calls, failing.  No answer is needed when no pool asks for a block.  The
\* driver is out of memory once a pool has MaxBlocks blocks.
LockstepOutcomes(size, alignment) ==
    IF \A k \in PoolKinds :
          PoolAlloc(k, pool_occupied[k], size, alignment, "alloc_err").ret.kind = "ok"
    THEN {"ok"}
    ELSE {"alloc_err"}
           \cup (IF \A k \in PoolKinds : Len(pool_occupied[k]) < MaxBlocks
                 THEN {"ok", "map_err"} ELSE {})

\* The same alloc is called on both pools.  The run ends when the pools have
\* been given different answers: there is nothing left to compare.
LockstepAlloc(size, alignment, outcome) ==
    /\ ~map_failed
    /\ Cardinality(pool_live) < MaxLive
    /\ \E hv \in {HostVisibleAlloc(pool_occupied["host_visible"],
                                    size, alignment, outcome)},
          nhv \in {NonHostVisibleAlloc(pool_occupied["non_host_visible"], size,
                      alignment, IF outcome = "map_err" THEN "ok" ELSE outcome)} :
           /\ pool_occupied' = [host_visible |-> hv.occupied,
                                non_host_visible |-> nhv.occupied]
           /\ pool_ret' = [host_visible |-> hv.ret, non_host_visible |-> nhv.ret]
           /\ pool_live' = IF hv.ret.kind = "ok" \/ nhv.ret.kind = "ok"
                           THEN pool_live \cup
                                  {[host_visible |-> HeldOf(hv.ret),
                                    non_host_visible |-> HeldOf(nhv.ret)]}
                           ELSE pool_live
           /\ map_failed' = (map_failed \/ hv.ret.error = "map_err")
    /\ UNCHANGED <<pool_lock, pool_pc>>
    /\ UNCHANGED <<aligned, sel, afr, afr2, poolVars, semVars>>

\* The two allocations one call of LockstepAlloc has returned are dropped.
LockstepDrop(h) ==
    /\ ~map_failed
    /\ h \in pool_live
    /\ pool_live' = pool_live \ {h}
    /\ pool_occupied' =
          [k \in PoolKinds |->
              IF h[k] = NoAlloc THEN pool_occupied[k]
              ELSE PoolDrop(k, pool_occupied[k], h[k])]
    /\ pool_ret' = [k \in PoolKinds |-> NoPoolRet]
    /\ UNCHANGED <<pool_lock, pool_pc, map_failed>>
    /\ UNCHANGED <<aligned, sel, afr, afr2, poolVars, semVars>>

LockstepNext ==
    \/ \E r \in TwoPoolRequests :
          \E outcome \in LockstepOutcomes(r[1], r[2]) :
             LockstepAlloc(r[1], r[2], outcome)
    \/ \E h \in pool_live : LockstepDrop(h)

LockstepSpec == TwoInit /\ [][LockstepNext]_vars

\* ------------------------------------- the two pools and their callers
\* Variant of CanLockPool: one lock for all pools.
CanLockPool_Global(k) == \A j \in PoolKinds : pool_lock[j] = 0

\* self.occupied.lock() of the pool of kind k succeeds when nobody holds the
\* mutex of that pool.
CanLockPool(k) == pool_lock[k] = 0

\* The callers hold or are about to get fewer than MaxLive allocations.
MayAlloc ==
    Cardinality(pool_live)
       + Cardinality({u \in Threads : pool_pc[u].pc = "alloc"}) < MaxLive

\* alloc is called on the pool of kind k: the lock of that pool is taken (the
\* caller waits until it is free).
TwoAllocCall(t, k, size, alignment) ==
    /\ pool_pc[t].pc = "idle"
    /\ MayAlloc
    /\ CanLockPool(k)
    /\ pool_lock' = [pool_lock EXCEPT ![k] = t]
    /\ pool_pc' = [pool_pc EXCEPT ![t] =
                      [pc |-> "alloc", pool |-> k, size |-> size,
                       alignment |-> alignment, held |-> NoAlloc]]
    /\ UNCHANGED <<pool_occupied, pool_live, pool_ret, map_failed>>
    /\ UNCHANGED <<aligned, sel, afr, afr2, poolVars, semVars>>

\* The answers of the driver to the alloc a thread is running.
TwoOutcomes(c) ==
    IF PoolAlloc(c.pool, pool_occupied[c.pool], c.size, c.alignment,
                 "alloc_err").ret.kind = "ok"
    THEN {"ok"}
    ELSE {"alloc_err"}
           \cup (IF c.pool = "host_visible" THEN {"map_err"} ELSE {})
           \cup (IF Len(pool_occupied[c.pool]) < MaxBlocks THEN {"ok"} ELSE {})

\* The body of alloc under the lock, the return and the release of the lock.
TwoAllocReturn(t) ==
    /\ pool_pc[t].pc = "alloc"
    /\ \E outcome \in TwoOutcomes(pool_pc[t]) :
       \E r \in {PoolAlloc(pool_pc[t].pool, pool_occupied[pool_pc[t].pool],
                           pool_pc[t].size, pool_pc[t].alignment, outcome)} :
          /\ pool_occupied' = [pool_occupied EXCEPT ![pool_pc[t].pool] = r.occupied]
          /\ pool_ret' = [pool_ret EXCEPT ![pool_pc[t].pool] = r.ret]
          /\ pool_live' = IF r.ret.kind = "ok"
                          THEN pool_live \cup
                                 {[pool |-> pool_pc[t].pool, alloc |-> HeldOf(r.ret)]}
                          ELSE pool_live
    /\ pool_lock' = [pool_lock EXCEPT ![pool_pc[t].pool] = 0]
    /\ pool_pc' = [pool_pc EXCEPT ![t] = NoCall]
    /\ UNCHANGED map_failed
    /\ UNCHANGED <<aligned, sel, afr, afr2, poolVars, semVars>>

\* A caller lets go of an allocation: its destructor takes the lock of the
\* pool the allocation is of.
TwoDropCall(t, h) ==
    /\ pool_pc[t].pc = "idle"
    /\ h \in pool_live
    /\ CanLockPool(h.pool)
    /\ pool_lock' = [pool_lock EXCEPT ![h.pool] = t]
    /\ pool_live' = pool_live \ {h}
    /\ pool_pc' = [pool_pc EXCEPT ![t] =
                      [NoCall EXCEPT !.pc = "drop", !.pool = h.pool,
                                     !.held = h.alloc]]
    /\ UNCHANGED <<pool_occupied, pool_ret, map_failed>>
    /\ UNCHANGED <<aligned, sel, afr, afr2, poolVars, semVars>>

\* The range is removed, the lock released.
TwoDropReturn(t) ==
    /\ pool_pc[t].pc = "drop"
    /\ pool_occupied' = [pool_occupied EXCEPT ![pool_pc[t].pool] =
                            PoolDrop(pool_pc[t].pool, @, pool_pc[t].held)]
    /\ pool_ret' = [pool_ret EXCEPT ![pool_pc[t].pool] = NoPoolRet]
    /\ pool_lock' = [pool_lock EXCEPT ![pool_pc[t].pool] = 0]
    /\ pool_pc' = [pool_pc EXCEPT ![t] = NoCall]
    /\ UNCHANGED <<pool_live, map_failed>>
    /\ UNCHANGED <<aligned, sel, afr, afr2, poolVars, semVars>>

\* What the concurrent callers of the two pools ask for.
ConcurrentRequests == {<<4 * MiB, 256>>}

TwoPoolNext ==
    \/ \E t \in Threads, k \in PoolKinds, r \in ConcurrentRequests :
          TwoAllocCall(t, k, r[1], r[2])
    \/ \E t \in Threads : TwoAllocReturn(t)
    \/ \E t \in Threads, h \in pool_live : TwoDropCall(t, h)
    \/ \E t \in Threads : TwoDropReturn(t)

TwoPoolSpec == TwoInit /\ [][TwoPoolNext]_vars

\* ------------------------------- the block allocator and the policy
\* The runs of the block allocator together with the runs of the policy.
MemoryInit == Init \/ PolicyInit

MemoryNext == Next \/ PolicyNext

MemorySpec == MemoryInit /\ [][MemoryNext]_vars

\* ------------------------------------------------- properties of the pool
Blocks == 1..Len(occupied)

\* The allocations that exist: held by a caller, or inside a destructor that
\* has not removed the range yet.
LiveSet == BagToSet(live) \cup {dropping[t] : t \in {u \in Threads : pc[u] \in DropPcs}}

LiveCount(a) ==
    CopiesIn(a, live)
      + Cardinality({t \in Threads : pc[t] \in DropPcs /\ dropping[t] = a})

\* The positions (block, index) of the entries [start, end) in the lists of
\* the blocks identified by mem.
EntriesOf(mem, start, end) ==
    UNION {{<<b, i>> : i \in {j \in 1..Len(occupied[b].entries) :
                                /\ occupied[b].mem = mem
                                /\ occupied[b].entries[j].start = start
                                /\ occupied[b].entries[j].end = end}} :
           b \in Blocks}

EntryCount(mem, start, end) == Cardinality(EntriesOf(mem, start, end))

\* C1: in every reachable state the range list of every block is sorted by
\* strictly ascending start and consecutive ranges do not overlap
\* (r1.end <= r2.start).
C1_SortedDisjoint ==
    \A b \in Blocks :
        LET e == occupied[b].entries
        IN  \A i \in 1..(Len(e) - 1) :
                /\ e[i].start < e[i + 1].start
                /\ e[i].end <= e[i + 1].start

\* An allocation was just placed in an interior gap, between two ranges.
C1_Witness ==
    /\ lastRet.kind = "ok"
    /\ lastRet.path = "gap"
    /\ \E b \in Blocks : Len(occupied[b].entries) >= 3

\* C2: every successful alloc returns an offset that is a multiple of the
\* alignment and whose range ends within the capacity of the block the
\* allocation refers to.
C2_AlignedInBounds ==
    lastRet.kind = "ok" =>
        /\ lastRet.size > 0 /\ lastRet.alignment > 0
        /\ lastRet.offset % lastRet.alignment = 0
        /\ \E b \in Blocks :
              /\ occupied[b].mem = lastRet.mem
              /\ lastRet.offset + lastRet.size <= occupied[b].cap

\* An allocation was just placed after a range whose end is not a multiple of
\* the alignment asked for.
C2_Witness ==
    /\ lastRet.kind = "ok"
    /\ lastRet.path = "append"
    /\ lastRet.alignment = 4 * MiB
    /\ lastRet.offset = 4 * MiB
    /\ \E b \in Blocks : \E i \in 1..Len(occupied[b].entries) :
          occupied[b].mem = lastRet.mem /\ occupied[b].entries[i].end = MiB

\* C3: the allocations that exist and the entries of the range lists are in
\* one-to-one correspondence: each allocation has exactly one entry
\* [offset, offset + size) in the list of its block, and each entry is the
\* range of exactly one allocation.
C3_LiveMatchesEntries ==
    /\ \A a \in LiveSet :
          /\ LiveCount(a) = 1
          /\ EntryCount(a.mem, a.offset, a.offset + a.size) = 1
    /\ \A b \in Blocks : \A i \in 1..Len(occupied[b].entries) :
          LET e == occupied[b].entries[i]
          IN  /\ [mem |-> occupied[b].mem, offset |-> e.start,
                  size |-> e.end - e.start] \in LiveSet
              /\ EntryCount(occupied[b].mem, e.start, e.end) = 1
    /\ \A b, c \in Blocks : occupied[b].mem = occupied[c].mem => b = c

\* Allocations have been made and one at the head of a block dropped, while
\* others are still held.
C3_Witness ==
    /\ BagCardinality(live) >= 2
    /\ \A t \in Threads : pc[t] = "idle"
    /\ \E b \in Blocks :
          /\ Len(occupied[b].entries) >= 1
          /\ occupied[b].entries[1].start > 0

\* The least multiple of al that is >= v.
RoundUp(v, al) == ((v + al - 1) \div al) * al

\* Some block of occ has room for (size, alignment): an offset o, multiple of
\* alignment, with [o, o + size) inside the block and disjoint from every
\* range of the block.  If any offset of a free interval fits, the least
\* multiple of alignment in that interval fits: that is 0 or the round-up of
\* the end of a range.
FreeFit(occ, size, alignment) ==
    \E b \in 1..Len(occ) :
        LET e == occ[b].entries
            cands == {0} \cup {RoundUp(e[i].end, alignment) : i \in 1..Len(e)}
        IN  \E o \in cands :
                /\ o + size <= occ[b].cap
                /\ \A i \in 1..Len(e) : e[i].end <= o \/ o + size <= e[i].start

\* Thread t returns from alloc with an allocation in this step.
AllocReturns(t) ==
    /\ pc[t] \in AllocPcs
    /\ pc'[t] = "idle"
    /\ lastRet'.kind = "ok"

\* C4: alloc creates a new block only when no existing block has a free
\* interval that fits the request (stated as the claim has it; the code does
\* not keep it).
C4_GrowsOnlyWithoutFit ==
    [][\A t \in Threads :
          (AllocReturns(t) /\ Len(occupied') > Len(occupied))
              => ~FreeFit(occupied, req[t].size, req[t].alignment)]_vars

\* C5: the critical sections of alloc and drop exclude each other: at most
\* one thread is between taking and releasing the lock and it is the holder;
\* the location a thread found is still the one the search gives on the
\* current block list when it inserts (search and insert are one atomic
\* unit); no two existing allocations of a block overlap.
C5_Serialized ==
    /\ \A t, u \in Threads : (pc[t] # "idle" /\ pc[u] # "idle") => t = u
    /\ \A t \in Threads : pc[t] # "idle" <=> lock = t
    /\ \A t \in Threads :
          pc[t] \in AllocPcs =>
              plan[t] = Search(occupied, req[t].size, req[t].alignment)
    /\ \A t \in Threads :
          pc[t] \in DropPcs =>
              EntryCount(dropping[t].mem, dropping[t].offset,
                         dropping[t].offset + dropping[t].size) = 1
    /\ \A a \in LiveSet : LiveCount(a) = 1
    /\ \A a1, a2 \in LiveSet :
          (a1 # a2 /\ a1.mem = a2.mem) =>
              \/ a1.offset + a1.size <= a2.offset
              \/ a2.offset + a2.size <= a1.offset

\* The second thread is inside alloc, about to insert between two ranges that
\* earlier calls left, while the first thread is outside.
C5_Witness ==
    /\ NumThreads >= 2
    /\ lock = 2
    /\ pc[2] = "alloc_insert"
    /\ plan[2].kind = "gap"
    /\ pc[1] = "idle"
    /\ BagCardinality(live) >= 2

\* s without its i-th element.
RemoveAt(s, i) == SubSeq(s, 1, i - 1) \o SubSeq(s, i + 1, Len(s))

\* C6: the drop of allocation (block b, offset o) removes from the list of b
\* exactly the one entry whose start is o; the other entries of b keep their
\* order, the other blocks and the block list itself are unchanged.
C6_DropFrame ==
    [][\A t \in Threads :
          (pc[t] = "drop_body" /\ pc'[t] = "idle") =>
              /\ Len(occupied') = Len(occupied)
              /\ \E b \in Blocks :
                    /\ occupied[b].mem = dropping[t].mem
                    /\ \A c \in Blocks \ {b} : occupied'[c] = occupied[c]
                    /\ occupied'[b].mem = occupied[b].mem
                    /\ occupied'[b].cap = occupied[b].cap
                    /\ occupied'[b].mapped = occupied[b].mapped
                    /\ \E i \in 1..Len(occupied[b].entries) :
                          /\ occupied[b].entries[i].start = dropping[t].offset
                          /\ occupied[b].entries[i].end
                                = dropping[t].offset + dropping[t].size
                          /\ occupied'[b].entries
                                = RemoveAt(occupied[b].entries, i)]_vars

\* Two blocks exist; the second one has lost all its ranges and is still
\* there, the first one has kept its ranges.
C6_Witness ==
    /\ Len(occupied) = 2
    /\ occupied[2].entries = <<>>
    /\ Len(occupied[1].entries) >= 2
    /\ \A t \in Threads : pc[t] = "idle"

\* C7: when the driver fails while alloc is growing the pool (the allocation
\* of the block, or its mapping in the host-visible pool), alloc returns the
\* error and the block list and every range list are as before the call; no
\* allocation comes to exist and the lock is released.
C7_FailedGrowthLeavesState ==
    [][\A t \in Threads :
          (pc[t] = "alloc_grow" /\ pc'[t] = "idle" /\ lastRet'.kind # "ok") =>
              /\ lastRet'.kind = "err"
              /\ occupied' = occupied
              /\ live' = live
              /\ lock' = 0]_vars

\* The mapping of a new block has just failed in a pool that already has a
\* block with ranges.
C7_Witness ==
    /\ lastRet.kind = "err"
    /\ lastRet.path = "map_err"
    /\ Len(occupied) = 1
    /\ Len(occupied[1].entries) >= 1

\* C8: alloc with size 0 or alignment 0 panics: no thread ever runs the body
\* of alloc with such a request and no allocation or error is returned for
\* one; the panic happens without the lock being taken or waited for and it
\* changes neither the block list nor a range list.
C8_ZeroArgsPanic ==
    /\ [](/\ \A t \in Threads :
                pc[t] \in AllocPcs => (req[t].size # 0 /\ req[t].alignment # 0)
          /\ lastRet.kind \in {"ok", "err"} =>
                (lastRet.size # 0 /\ lastRet.alignment # 0)
          /\ lastRet.kind = "panic" =>
                (lastRet.size = 0 \/ lastRet.alignment = 0))
    /\ [][lastRet'.kind = "panic" =>
             UNCHANGED <<occupied, lock, live, pc, req, plan, dropping>>]_vars

\* alloc(0, 256) has just panicked while another thread holds the lock of the
\* pool.
C8_Witness ==
    /\ lastRet.kind = "panic"
    /\ lastRet.size = 0
    /\ lastRet.alignment = 256
    /\ lock # 0

\* The block lists of the scenario of C9.
C9_AfterFirst ==
    /\ Len(occupied) = 1
    /\ occupied[1].cap = 8 * MiB
    /\ occupied[1].entries = <<[start |-> 0, end |-> 4 * MiB]>>

C9_AfterSecond ==
    /\ Len(occupied) = 1
    /\ occupied[1].cap = 8 * MiB
    /\ occupied[1].entries = <<[start |-> 0, end |-> 4 * MiB],
                               [start |-> 4 * MiB, end |-> 8 * MiB]>>

C9_AfterThird ==
    /\ Len(occupied) = 2
    /\ occupied[1].cap = 8 * MiB
    /\ occupied[1].entries = <<[start |-> 0, end |-> 4 * MiB],
                               [start |-> 4 * MiB, end |-> 8 * MiB]>>
    /\ occupied[2].entries = <<[start |-> 0, end |-> MiB]>>
    /\ occupied[2].mem # occupied[1].mem

\* C9: from the empty pool, alloc(4 MiB, 256) creates one block of 8 MiB with
\* the range [0, 4 MiB); from there alloc(4 MiB, 256) is placed in the same
\* block at offset 4 MiB exactly; from there alloc(1 MiB, 256) creates a
\* second block and is placed at its offset 0.
C9_Scenario ==
    [][\A t \in Threads :
          AllocReturns(t) =>
              /\ (occupied = <<>> /\ req[t] = [size |-> 4 * MiB, alignment |-> 256])
                    => (C9_AfterFirst' /\ lastRet'.offset = 0
                        /\ lastRet'.mem = occupied'[1].mem)
              /\ (C9_AfterFirst /\ req[t] = [size |-> 4 * MiB, alignment |-> 256])
                    => (C9_AfterSecond' /\ lastRet'.offset = 4 * MiB
                        /\ lastRet'.mem = occupied[1].mem
                        /\ occupied'[1].mem = occupied[1].mem)
              /\ (C9_AfterSecond /\ req[t] = [size |-> MiB, alignment |-> 256])
                    => (C9_AfterThird' /\ lastRet'.offset = 0
                        /\ lastRet'.mem = occupied'[2].mem
                        /\ occupied'[1] = occupied[1])]_vars

\* The third allocation of the scenario has just been returned.
C9_Witness ==
    /\ C9_AfterThird
    /\ lastRet.kind = "ok"
    /\ lastRet.path = "new"
    /\ lastRet.size = MiB
    /\ lastRet.alignment = 256
    /\ BagCardinality(live) = 3

IsPowerOfTwo(c) == \E k \in 0..30 : c = 2 ^ k

\* c is max(MIN_BLOCK_SIZE, the least power of two >= size).
IsGrowthCapacity(c, size) ==
    /\ c >= MIN_BLOCK_SIZE
    /\ c >= size
    /\ IsPowerOfTwo(c)
    /\ c = MIN_BLOCK_SIZE \/ c < 2 * size

\* C10: on the growth path the new block has capacity
\* max(8 MiB, next_power_of_two(size)), is appended at the end of the block
\* list with the single range [0, size), and the allocation returned refers
\* to that block at offset 0.
C10_GrowthBlock ==
    [][\A t \in Threads :
          (pc[t] = "alloc_grow" /\ AllocReturns(t)) =>
              LET n == Len(occupied') IN
              /\ n = Len(occupied) + 1
              /\ SubSeq(occupied', 1, n - 1) = occupied
              /\ IsGrowthCapacity(occupied'[n].cap, req[t].size)
              /\ occupied'[n].entries = <<[start |-> 0, end |-> req[t].size]>>
              /\ \A b \in Blocks : occupied[b].mem # occupied'[n].mem
              /\ lastRet'.mem = occupied'[n].mem
              /\ lastRet'.offset = 0
              /\ lastRet'.size = req[t].size]_vars

\* A second block, of 16 MiB, has just been created for a request of 12 MiB.
C10_Witness ==
    /\ lastRet.kind = "ok"
    /\ lastRet.path = "new"
    /\ lastRet.size = 12 * MiB
    /\ Len(occupied) = 2
    /\ occupied[2].cap = 16 * MiB
    /\ lastRet.mem = occupied[2].mem

\* C11 as stated: align always moves on: for a value that is a positive
\* multiple of the alignment it returns the next multiple, strictly greater
\* than the value (the code does not do this).
C11_AlwaysRoundsUp ==
    (aligned.val > 0 /\ aligned.val % aligned.al = 0) =>
        /\ aligned.ret > aligned.val
        /\ aligned.ret = aligned.val + aligned.al

\* C11, amended: align(v, a) for v > 0, a > 0 is the least multiple of a that
\* is >= v: v itself when v is a multiple of a, the next multiple above v
\* otherwise; the offset computed after a range whose end is aligned is that
\* end, without padding.
C11_LeastMultipleAtLeast ==
    aligned.val > 0 =>
        /\ aligned.ret % aligned.al = 0
        /\ aligned.ret >= aligned.val
        /\ aligned.ret - aligned.al < aligned.val
        /\ (aligned.val % aligned.al = 0) => aligned.ret = aligned.val
        /\ (aligned.val % aligned.al # 0) => aligned.ret > aligned.val
        /\ \A m \in aligned.val..(aligned.ret - 1) : m % aligned.al # 0

\* align has been applied to a multiple of an alignment greater than one.
C11_Witness ==
    /\ aligned.val = 12
    /\ aligned.al = 4
    /\ aligned.ret = 12

\* Some block of occ has room for (size, alignment) between two consecutive
\* ranges or after its last range (an empty block has room at offset 0).
GapOrTailFit(occ, size, alignment) ==
    \E b \in 1..Len(occ) :
        LET e == occ[b].entries
        IN  \/ \E i \in 1..(Len(e) - 1) :
                  RoundUp(e[i].end, alignment) + size <= e[i + 1].start
            \/ (IF Len(e) = 0 THEN 0 ELSE RoundUp(e[Len(e)].end, alignment))
                  + size <= occ[b].cap

\* C12: an alloc with size > 0 and alignment > 0 returns an allocation or an
\* error; an error only from the step that asks the driver for a new block,
\* when the driver has failed there; when a block has a fitting interior gap
\* or tail, alloc succeeds in the step that inserts, the driver is not asked
\* and no block is added.
C12_ErrorsOnlyFromDriver ==
    [][\A t \in Threads :
          (pc[t] \in AllocPcs /\ pc'[t] = "idle") =>
              /\ req[t].size > 0 /\ req[t].alignment > 0
              /\ lastRet'.kind \in {"ok", "err"}
              /\ lastRet'.kind = "err" =>
                    /\ pc[t] = "alloc_grow"
                    /\ lastRet'.path \in {"alloc_err", "map_err"}
                    /\ ~GapOrTailFit(occupied, req[t].size, req[t].alignment)
              /\ GapOrTailFit(occupied, req[t].size, req[t].alignment) =>
                    /\ pc[t] = "alloc_insert"
                    /\ lastRet'.kind = "ok"
                    /\ Len(occupied') = Len(occupied)
              /\ pc[t] = "alloc_grow" =>
                    (lastRet'.kind = "ok" <=> Len(occupied') = Len(occupied) + 1)]_vars

\* The driver has just refused a third block: both blocks of the pool are
\* full of allocations that are still held.
C12_Witness ==
    /\ lastRet.kind = "err"
    /\ lastRet.path = "alloc_err"
    /\ Len(occupied) = 2
    /\ BagCardinality(live) >= 2
    /\ ~GapOrTailFit(occupied, lastRet.size, lastRet.alignment)

\* C13: the block list only grows: no step makes it shorter, and a block
\* that exists keeps its position, its identity, its capacity and its
\* mapping, also when its last range is removed.
C13_BlocksOnlyGrow ==
    [][/\ Len(occupied') >= Len(occupied)
       /\ \A b \in Blocks :
             /\ occupied'[b].mem = occupied[b].mem
             /\ occupied'[b].cap = occupied[b].cap
             /\ occupied'[b].mapped = occupied[b].mapped]_vars

\* The first of two blocks has lost all its ranges and is still in the list,
\* in front of the second one, which has kept its ranges.
C13_Witness ==
    /\ Len(occupied) = 2
    /\ occupied[1].entries = <<>>
    /\ occupied[1].cap >= MIN_BLOCK_SIZE
    /\ occupied[2].entries # <<>>
    /\ \A t \in Threads : pc[t] = "idle"

\* Bit id of bits is set.
HasBit(bits, id) == bits % (2 ^ (id + 1)) >= 2 ^ id

\* The class of type id in the last selection: the answer of the caller's
\* filter, or Forbidden for a type that is not host-visible when the memory
\* has to be mapped.
SelClass(id) ==
    IF sel.map = "Map" /\ sel.types[id + 1] = FALSE
    THEN "Forbidden"
    ELSE sel.filter[id + 1]

\* The types whose bit is set and that are of class c in the last selection.
SelEligible(c) == {id \in TypeIds : HasBit(sel.bits, id) /\ SelClass(id) = c}

\* C14: the selection returns the lowest-index eligible type of class
\* Preferred if there is one, otherwise the lowest-index eligible type of
\* class Allowed; a type that is Forbidden or whose bit is clear is never
\* returned; with bits {0, 2}, type 2 Preferred and type 0 Allowed the result
\* is type 2.
C14_PreferredThenAllowed ==
    sel.kind \in {"ok", "panic"} =>
        /\ SelEligible("Preferred") # {} =>
              (sel.kind = "ok" /\ sel.ty = Min(SelEligible("Preferred")))
        /\ (SelEligible("Preferred") = {} /\ SelEligible("Allowed") # {}) =>
              (sel.kind = "ok" /\ sel.ty = Min(SelEligible("Allowed")))
        /\ sel.kind = "ok" =>
              /\ sel.ty \in TypeIds
              /\ HasBit(sel.bits, sel.ty)
              /\ SelClass(sel.ty) # "Forbidden"
        /\ (/\ sel.bits = 5
            /\ SelClass(2) = "Preferred"
            /\ SelClass(0) = "Allowed") => sel.ty = 2

\* The selection of the example: bits {0, 2}, type 0 Allowed, type 2
\* Preferred, nothing to map.
C14_Witness ==
    /\ sel.kind = "ok"
    /\ sel.bits = 5
    /\ sel.map = "DoNotMap"
    /\ sel.filter[1] = "Allowed"
    /\ sel.filter[3] = "Preferred"
    /\ sel.ty = 2

\* The eligible types the caller's own filter puts in class c.
RawEligible(c) ==
    {id \in TypeIds : HasBit(sel.bits, id) /\ sel.filter[id + 1] = c}

\* The eligible host-visible types the caller's own filter puts in class c.
VisibleEligible(c) == {id \in RawEligible(c) : sel.types[id + 1]}

\* C15: with Map, a type that is not host-visible counts as Forbidden
\* whatever the caller's filter says: the selected type is host-visible and is
\* the one the two passes give over the host-visible types alone; with
\* DoNotMap the classes are those of the caller's filter and host visibility
\* plays no part.
C15_MapForcesHostVisible ==
    /\ (sel.kind \in {"ok", "panic"} /\ sel.map = "Map") =>
          /\ sel.kind = "ok" => sel.types[sel.ty + 1]
          /\ VisibleEligible("Preferred") # {} =>
                sel.ty = Min(VisibleEligible("Preferred"))
          /\ (VisibleEligible("Preferred") = {} /\ VisibleEligible("Allowed") # {}) =>
                sel.ty = Min(VisibleEligible("Allowed"))
          /\ (VisibleEligible("Preferred") \cup VisibleEligible("Allowed") = {}) =>
                sel.kind = "panic"
    /\ (sel.kind \in {"ok", "panic"} /\ sel.map = "DoNotMap") =>
          /\ RawEligible("Preferred") # {} =>
                sel.ty = Min(RawEligible("Preferred"))
          /\ (RawEligible("Preferred") = {} /\ RawEligible("Allowed") # {}) =>
                sel.ty = Min(RawEligible("Allowed"))
          /\ (RawEligible("Preferred") \cup RawEligible("Allowed") = {}) =>
                sel.kind = "panic"

\* Memory to be mapped: type 0 is Preferred by the caller but not
\* host-visible, and the host-visible type 1, only Allowed, is selected.
C15_Witness ==
    /\ sel.kind = "ok"
    /\ sel.map = "Map"
    /\ sel.types[1] = FALSE
    /\ sel.filter[1] = "Preferred"
    /\ HasBit(sel.bits, 0)
    /\ sel.types[2] = TRUE
    /\ sel.filter[2] = "Allowed"
    /\ sel.ty = 1

\* The types that are eligible for the frame of the entry point: bit set,
\* not forbidden by the caller, host-visible if the memory is to be mapped.
FrameEligible ==
    {id \in TypeIds :
        /\ HasBit(afr.requirements.memory_type_bits, id)
        /\ afr.filter[id + 1] \in {"Preferred", "Allowed"}
        /\ afr.map = "Map" => afr.types[id + 1]}

\* C16: when no memory type is eligible the selection panics and gives no
\* type: the entry point (alloc_from_requirements, export or import) ends in
\* a panic without having called alloc_generic, DeviceMemory::allocate or
\* DeviceMemory::import.
C16_NoTypeNoAllocation ==
    (afr.entry # "none" /\ FrameEligible = {}) =>
        /\ afr.pc \in {"call", "done"}
        /\ afr.memory_type = NoType
        /\ afr.generic = <<>>
        /\ afr.device = <<>>
        /\ afr.pc = "done" =>
              (afr.ret.kind = "panic" /\ afr.ret.variant = "none")

\* alloc_from_requirements has panicked for memory that is to be mapped: the
\* caller prefers the types that are not host-visible and forbids the other.
C16_Witness ==
    /\ afr.pc = "done"
    /\ afr.entry = "alloc_from_requirements"
    /\ afr.ret.kind = "panic"
    /\ afr.map = "Map"
    /\ afr.requirements.memory_type_bits = 2 ^ NumTypes - 1
    /\ afr.filter[1] = "Preferred"
    /\ afr.filter[2] = "Forbidden"

\* alloc_from_requirements has selected a type and gone on.
AfrRunning ==
    /\ afr.entry = "alloc_from_requirements"
    /\ afr.pc # "call"
    /\ afr.memory_type # NoType

\* The call has gone to the driver once and not to alloc_generic.
OnDedicatedPath ==
    /\ afr.generic = <<>>
    /\ Len(afr.device) = 1
    /\ afr.pc \in {"allocate", "map", "done"}
    /\ afr.ret.kind = "ok" => afr.ret.variant \in {"Dedicated", "DedicatedMapped"}

\* The call has gone to alloc_generic once and not to the driver.
OnPooledPath ==
    /\ afr.device = <<>>
    /\ Len(afr.generic) = 1
    /\ afr.pc \in {"alloc_generic", "done"}
    /\ afr.ret.kind = "ok" => afr.ret.variant = "Generic"

C18_PoolNeverAboveCeiling ==
    /\ \A i \in 1..Len(afr.generic) : afr.generic[i].size <= MAX_POOL_ALLOC
    /\ (AfrRunning /\ afr.requirements.size > MAX_POOL_ALLOC) => OnDedicatedPath

\* C19: on the dedicated path of alloc_from_requirements the driver is asked
\* for exactly requirements.size bytes of the selected type; the result is
\* DedicatedMapped with [0, requirements.size) mapped when the memory is to be
\* mapped and Dedicated without a mapping otherwise; when the mapping fails
\* the error is returned and there is no allocation.
C19_DedicatedExactSize ==
    /\ [](AfrRunning /\ afr.device # <<>> =>
            /\ Len(afr.device) = 1
            /\ afr.device[1].call = "allocate"
            /\ afr.device[1].info.allocation_size = afr.requirements.size
            /\ afr.device[1].info.memory_type_index = afr.memory_type
            /\ afr.pc = "map" => afr.map = "Map"
            /\ (afr.pc = "done" /\ afr.ret.kind = "ok") =>
                  /\ afr.ret.memory.allocation_size = afr.requirements.size
                  /\ alloc_offset(afr.ret) = 0
                  /\ afr.map = "Map" =>
                        /\ afr.ret.variant = "DedicatedMapped"
                        /\ mapped_memory(afr.ret)
                             = <<[start |-> 0, end |-> afr.requirements.size]>>
                  /\ afr.map = "DoNotMap" =>
                        /\ afr.ret.variant = "Dedicated"
                        /\ mapped_memory(afr.ret) = <<>>
            /\ (afr.pc = "done" /\ afr.ret.kind # "ok") =>
                  /\ afr.ret.kind = "err"
                  /\ afr.ret.variant = "none"
                  /\ afr.ret.mapped = <<>>)
    /\ [][(afr.entry = "alloc_from_requirements" /\ afr.pc = "map"
              /\ afr'.pc = "done" /\ afr'.ret.variant # "DedicatedMapped") =>
             (afr'.ret.kind = "err" /\ afr'.ret.variant = "none")]_vars

\* A dedicated allocation of 4 KiB, asked for by prefer_dedicated, has been
\* mapped and returned.
C19_Witness ==
    /\ AfrRunning
    /\ afr.pc = "done"
    /\ afr.requirements.size = 4 * KiB
    /\ afr.requirements.prefer_dedicated
    /\ afr.map = "Map"
    /\ afr.ret.variant = "DedicatedMapped"
    /\ afr.device[1].info.allocation_size = 4 * KiB

\* C20: an allocation that comes with a host mapping lies inside the mapped
\* range: the block of every allocation of the host-visible pool is mapped
\* over [0, capacity), which contains [offset, offset + size); the mapped range
\* of a DedicatedMapped result is [0, requirements.size) and the allocation is
\* at offset 0; in both cases there is a mapping (mapped_memory() is Some).
C20_MappingCoversAllocation ==
    /\ hostVisible =>
          \A a \in LiveSet \cup (IF lastRet.kind = "ok"
                                 THEN {[mem |-> lastRet.mem,
                                        offset |-> lastRet.offset,
                                        size |-> lastRet.size]}
                                 ELSE {}) :
              \E b \in Blocks :
                  /\ occupied[b].mem = a.mem
                  /\ occupied[b].mapped
                       = <<[start |-> 0, end |-> occupied[b].cap]>>
                  /\ 0 <= a.offset
                  /\ a.offset + a.size <= occupied[b].mapped[1].end
    /\ (afr.pc = "done" /\ afr.ret.variant = "DedicatedMapped") =>
          /\ Len(mapped_memory(afr.ret)) = 1
          /\ mapped_memory(afr.ret)[1]
                = [start |-> 0, end |-> afr.requirements.size]
          /\ alloc_offset(afr.ret) = 0
          /\ alloc_offset(afr.ret) + afr.requirements.size
                <= mapped_memory(afr.ret)[1].end

\* The host-visible pool has just returned an allocation behind the first
\* range of a block.
C20_Witness ==
    /\ hostVisible
    /\ lastRet.kind = "ok"
    /\ lastRet.path = "append"
    /\ lastRet.offset >= 4 * MiB
    /\ \E b \in Blocks : occupied[b].mem = lastRet.mem /\ occupied[b].mapped # <<>>

\* ------------------------------------- properties of the export and import
\* The extensions the entry point of a frame asserts on before anything else.
RequiredExtensions(f) ==
    CASE f.entry = "alloc_dedicated_with_exportable_fd" ->
             {"khr_external_memory_fd", "khr_external_memory"}
      [] f.entry = "alloc_import_from_fd" -> Extensions
      [] OTHER -> {}

\* C21: the export or the import entry point called on a device that lacks
\* one of the extensions it needs returns an error value to its caller, not
\* a fault, and has called neither the pool nor the device by then.
C21_MissingExtensionIsAnError ==
    (/\ afr.entry \in {"alloc_dedicated_with_exportable_fd", "alloc_import_from_fd"}
     /\ ~(RequiredExtensions(afr) \subseteq afr.extensions)
     /\ afr.pc = "done")
    => (afr.ret.kind = "err" /\ afr.device = <<>> /\ afr.generic = <<>>)

\* C22: the import never goes through the pool.  A call of alloc_import_from_fd
\* makes no call of alloc_generic and leaves the block list of the block
\* allocator as it is; what it makes is one call of DeviceMemory::import for
\* the dedicated target, and when it succeeds it returns Dedicated or
\* DedicatedMapped, never Generic, whatever the size and the mapping.
C22_ImportNeverPools ==
    /\ [](afr.entry = "alloc_import_from_fd" =>
            /\ afr.generic = <<>>
            /\ afr.pc # "alloc_generic"
            /\ Len(afr.device) <= 1
            /\ \A i \in 1..Len(afr.device) :
                  /\ afr.device[i].call = "import"
                  /\ afr.device[i].info.dedicated_allocation = afr.dedicated_allocation
            /\ (afr.pc = "done" /\ afr.ret.kind = "ok") =>
                  /\ afr.ret.variant =
                        (IF afr.map = "Map" THEN "DedicatedMapped" ELSE "Dedicated")
                  /\ afr.device # <<>>
                  /\ afr.ret.memory = afr.device[1].info)
    /\ [][afr.entry = "alloc_import_from_fd" => occupied' = occupied]_vars

\* An import of 4 KiB, a size the pool would serve, has returned Dedicated.
C22_Witness ==
    /\ afr.entry = "alloc_import_from_fd"
    /\ afr.requirements.size = 4 * KiB
    /\ ~afr.requirements.prefer_dedicated
    /\ afr.pc = "done"
    /\ afr.ret.kind = "ok"
    /\ afr.ret.variant = "Dedicated"

\* C23: alloc_import_from_fd looks at the first file descriptor only.  Two
\* calls that differ in nothing but the file descriptors after the first one
\* make the same call of DeviceMemory::import (same file, same
\* MemoryAllocateInfo) and end the same way, so the file descriptors after
\* the first one cause no error; a call with no file descriptor panics
\* before DeviceMemory::import is called.
C23_OnlyFirstFdCounts ==
    /\ afr2.pc = afr.pc
    /\ afr2.device = afr.device
    /\ afr2.memory_type = afr.memory_type
    /\ afr2.ret = afr.ret
    /\ \A i \in 1..Len(afr.device) :
          afr.device[i].call = "import" /\ afr.device[i].file = Head(afr.fd)
    /\ afr.fd = <<>> =>
          /\ afr.device = <<>>
          /\ afr.pc = "done" => afr.ret.kind = "panic"

\* An import of one file descriptor and an import of the same one followed by
\* another have both succeeded.
C23_Witness ==
    /\ afr.fd = <<3>>
    /\ afr2.fd = <<3, 4>>
    /\ afr.pc = "done"
    /\ afr2.pc = "done"
    /\ afr2.ret.kind = "ok"
    /\ afr2.device # <<>>

\* C24: alloc_dedicated_with_exportable_fd never goes through the pool, for
\* every size and whether or not the requirements prefer a dedicated
\* allocation.  Its one call of the device is DeviceMemory::allocate of
\* exactly requirements.size for the dedicated target, with opaque_fd as the
\* only export handle type; it returns Dedicated or DedicatedMapped, and the
\* handle type export_posix_fd asks for afterwards is one the memory was
\* created with.
C24_ExportIsDedicatedOpaqueFd ==
    /\ [](afr.entry = "alloc_dedicated_with_exportable_fd" =>
            /\ afr.generic = <<>>
            /\ afr.pc # "alloc_generic"
            /\ Len(afr.device) <= 1
            /\ \A i \in 1..Len(afr.device) :
                  /\ afr.device[i].call = "allocate"
                  /\ afr.device[i].info.allocation_size = afr.requirements.size
                  /\ afr.device[i].info.dedicated_allocation
                  /\ afr.device[i].info.export_handle_types = {"opaque_fd"}
            /\ (afr.pc = "done" /\ afr.ret.kind = "ok") =>
                  /\ afr.ret.variant =
                        (IF afr.map = "Map" THEN "DedicatedMapped" ELSE "Dedicated")
                  /\ afr.device # <<>>
                  /\ afr.ret.memory = afr.device[1].info
            /\ \A i \in 1..Len(afr.exported) :
                  /\ afr.exported[i].memory = afr.device[1].info
                  /\ afr.exported[i].handle_type
                        \in afr.exported[i].memory.export_handle_types)
    /\ [][afr.entry = "alloc_dedicated_with_exportable_fd" =>
             occupied' = occupied]_vars

\* The memory of an exportable allocation of 4 KiB, which did not ask for a
\* dedicated allocation, has been exported.
C24_Witness ==
    /\ afr.entry = "alloc_dedicated_with_exportable_fd"
    /\ afr.requirements.size = 4 * KiB
    /\ ~afr.requirements.prefer_dedicated
    /\ afr.ret.variant = "Dedicated"
    /\ afr.exported # <<>>

\* ---------------------------------------- properties of the handle
\* C29: the answers of an allocation handle.  A Generic handle answers
\* memory(), offset() and mapped_memory() with what the pool allocation it
\* wraps holds; a Dedicated handle answers offset 0, no mapping and its own
\* memory; a DedicatedMapped handle answers offset 0, its mapping and the
\* memory under the mapping.  What alloc_generic returned is always wrapped
\* as Generic, whatever its offset.
C29_HandleQueries ==
    /\ (afr.generic # <<>> /\ afr.pc = "done" /\ afr.ret.kind = "ok") =>
          /\ afr.ret.variant = "Generic"
          /\ afr.ret.alloc \in PoolAllocs
    /\ \A i \in 1..Len(afr.queried) :
          LET q == afr.queried[i]
          IN  /\ afr.ret.variant = "Generic" =>
                    /\ q.memory = afr.ret.alloc.memory
                    /\ q.offset = afr.ret.alloc.offset
                    /\ q.mapped_memory = afr.ret.alloc.mapped
              /\ afr.ret.variant = "Dedicated" =>
                    /\ q.memory = afr.device[1].info
                    /\ q.offset = 0
                    /\ q.mapped_memory = <<>>
              /\ afr.ret.variant = "DedicatedMapped" =>
                    /\ q.memory = afr.device[1].info
                    /\ q.offset = 0
                    /\ q.mapped_memory = <<MappedRange(afr.requirements)>>

\* A Generic handle on a mapped pool allocation at offset 4 KiB has answered.
C29_Witness ==
    /\ afr.ret.variant = "Generic"
    /\ afr.ret.alloc.offset = 4 * KiB
    /\ afr.ret.alloc.mapped # <<>>
    /\ afr.queried # <<>>

\* ------------------------------------ properties of the lock of the pool
\* The block list holds one block of 8 MiB whose only range is [0, 4 MiB).
OneBlockHalfFull ==
    /\ Len(occupied) = 1
    /\ occupied[1].cap = 8 * MiB
    /\ occupied[1].entries = <<[start |-> 0, end |-> 4 * MiB]>>

\* C25: the lock is held from the search to the registration of the new
\* block.  A thread that has found no room and is asking the driver for a
\* block holds the lock, and until it is done no step changes the block list,
\* the allocations held or the position of another thread, so the search
\* would still fail on the block list the new block is pushed on.  Of two
\* allocs of 4 MiB (alignment 256) on an empty pool, the one that comes second
\* finds the block of the first and goes into it at 4 MiB: one block is made.
C25_LockHeldAcrossGrowth ==
    /\ [](\A t \in Threads :
            /\ pc[t] = "alloc_grow" =>
                  /\ lock = t
                  /\ ~GapOrTailFit(occupied, req[t].size, req[t].alignment)
            /\ (pc[t] \in AllocPcs /\ OneBlockHalfFull
                  /\ req[t] = [size |-> 4 * MiB, alignment |-> 256]) =>
                  /\ pc[t] = "alloc_insert"
                  /\ plan[t].blk = 1
                  /\ plan[t].offset = 4 * MiB)
    /\ [][\A t \in Threads :
             /\ (pc[t] = "alloc_grow" /\ pc'[t] = "alloc_grow") =>
                   /\ occupied' = occupied
                   /\ live' = live
                   /\ pc' = pc
                   /\ lock' = t
             /\ (pc[t] = "alloc_insert" /\ pc'[t] = "idle" /\ OneBlockHalfFull) =>
                   Len(occupied') = 1]_vars

\* The second of two allocs of 4 MiB is about to go into the block the first
\* one has made, while the first thread is outside.
C25_Witness ==
    /\ OneBlockHalfFull
    /\ BagCardinality(live) = 1
    /\ pc[2] = "alloc_insert"
    /\ req[2] = [size |-> 4 * MiB, alignment |-> 256]
    /\ lock = 2
    /\ pc[1] = "idle"

\* ------------------------------------------ properties of the semaphores
\* The handles of the Semaphore objects that exist.
LiveHandles == {sem.handle : sem \in semaphores}

\* C26: the recycling of semaphores.  from_pool on an empty pool leaves the
\* pool empty and returns a new semaphore, which is to be put in the pool.
\* The drop of such a semaphore pushes its handle on the pool, which grows by
\* one, and destroys nothing.  from_pool on a pool that is not empty pops the
\* handle pushed last, the pool shrinks by one, and the semaphore returned has
\* that handle.  The pool changes in no other way, and its length is the
\* number of pooled semaphores dropped minus the number of calls of from_pool
\* the pool has served.
C26_PoolRecycles ==
    /\ [](Len(semaphore_pool) = semHist.pooled_drops - semHist.served)
    /\ [][/\ \A t \in Threads :
               /\ (semPc[t] = "idle" /\ semPc'[t] = "new") =>
                     (semaphore_pool = <<>> /\ semaphore_pool' = <<>>)
               /\ (semPc[t] = "new" /\ semPc'[t] = "idle") =>
                     /\ semaphore_pool' = semaphore_pool
                     /\ semRet'.op = "from_pool"
                     /\ ~semRet'.pooled
                     /\ semRet'.kind = "ok" =>
                           /\ semRet'.semaphore.must_put_in_pool
                           /\ semRet'.semaphore.handle
                                 \notin LiveHandles \cup semHist.destroyed
                           /\ \A i \in 1..Len(semaphore_pool) :
                                 semaphore_pool[i] # semRet'.semaphore.handle
                           /\ semaphores' = semaphores \cup {semRet'.semaphore}
          /\ Len(semaphore_pool') > Len(semaphore_pool) =>
               \E sem \in semaphores :
                  /\ sem.must_put_in_pool
                  /\ semaphores' = semaphores \ {sem}
                  /\ semaphore_pool' = Append(semaphore_pool, sem.handle)
                  /\ semHist'.destroyed = semHist.destroyed
                  /\ semHist'.pooled_drops = semHist.pooled_drops + 1
          /\ Len(semaphore_pool') < Len(semaphore_pool) =>
               /\ semaphore_pool
                     = Append(semaphore_pool', semaphore_pool[Len(semaphore_pool)])
               /\ semRet'.op = "from_pool"
               /\ semRet'.kind = "ok"
               /\ semRet'.pooled
               /\ semRet'.semaphore.handle = semaphore_pool[Len(semaphore_pool)]
               /\ semRet'.semaphore.must_put_in_pool
               /\ semaphores' = semaphores \cup {semRet'.semaphore}
               /\ semHist'.served = semHist.served + 1
          /\ Len(semaphore_pool') = Len(semaphore_pool) =>
               semaphore_pool' = semaphore_pool
          /\ \A sem \in semaphores :
               (sem.must_put_in_pool /\ sem \notin semaphores') =>
                  Len(semaphore_pool') = Len(semaphore_pool) + 1]_vars

\* Two semaphores made by from_pool have been dropped, handle 1 first, and
\* from_pool has just handed out handle 2 again: handle 1 is left in the pool.
C26_Witness ==
    /\ semHist.created = 2
    /\ semHist.pooled_drops = 2
    /\ semHist.served = 1
    /\ semaphore_pool = <<1>>
    /\ semRet.op = "from_pool"
    /\ semRet.pooled
    /\ semRet.semaphore.handle = 2
    /\ semaphores = {semRet.semaphore}

\* The flag of ExternalSemaphoreHandleTypes that stands for a handle type.
FlagOf(handle_type) ==
    CASE handle_type = "OpaqueFd" -> "opaque_fd"
      [] handle_type = "SyncFd" -> "sync_fd"
      [] handle_type = "OpaqueWin32" -> "opaque_win32"
      [] handle_type = "OpaqueWin32Kmt" -> "opaque_win32_kmt"
      [] handle_type = "D3D12Fence" -> "d3d12_fence"

\* C27: export_fd asks the driver only when the device has
\* khr_external_semaphore_fd enabled, the handle type is one of the export
\* handle types of the semaphore and it is OpaqueFd or SyncFd.  Otherwise it
\* returns an error without asking the driver: RequirementNotMet when the
\* extension is missing, whatever the handle type, else
\* HandleTypeNotSupported.  When the validation passes, the call returns what
\* the driver answers, so that a semaphore created with opaque_fd on a device
\* with the extension exports OpaqueFd as long as the driver does.
C27_ExportFdValidation ==
    semRet.op = "export_fd" =>
        LET sem == semRet.semaphore
            h == semRet.handle_type
            enabled == "khr_external_semaphore_fd" \in semDevice.extensions
            valid == /\ enabled
                     /\ FlagOf(h) \in sem.export_handle_types
                     /\ h \in {"OpaqueFd", "SyncFd"}
        IN  /\ semRet.driver <=> valid
            /\ ~valid =>
                  /\ semRet.kind = "err"
                  /\ semRet.error = (IF ~enabled THEN "RequirementNotMet"
                                     ELSE "HandleTypeNotSupported")
            /\ valid =>
                  semRet.error \notin {"RequirementNotMet", "HandleTypeNotSupported"}
            /\ (enabled /\ sem.export_handle_types = {"opaque_fd"} /\ h = "OpaqueFd")
                  => semRet.driver

\* The semaphore of the test semaphore_export has been exported as OpaqueFd.
C27_Witness ==
    /\ semDevice.extensions = SemExtensions
    /\ semRet.op = "export_fd"
    /\ semRet.semaphore.export_handle_types = {"opaque_fd"}
    /\ ~semRet.semaphore.must_put_in_pool
    /\ semRet.handle_type = "OpaqueFd"
    /\ semRet.kind = "ok"

\* ------------------------------- properties of the two kinds of pool
\* The block lists of the two pools hold the same blocks with the same
\* capacities and the same ranges, and the last call returned the same to
\* the callers of both.
SameTables ==
    LET hv == pool_occupied["host_visible"]
        nhv == pool_occupied["non_host_visible"]
    IN  /\ Len(hv) = Len(nhv)
        /\ \A b \in 1..Len(hv) :
              /\ hv[b].mem = nhv[b].mem
              /\ hv[b].cap = nhv[b].cap
              /\ hv[b].entries = nhv[b].entries
        /\ pool_ret["host_visible"] = pool_ret["non_host_visible"]

C30_PoolsIndependent ==
    /\ [](\A t \in Threads :
            pool_pc[t].pc = "idle" =>
               /\ \A k \in PoolKinds :
                     (pool_lock[k] = 0 /\ MayAlloc) =>
                        ENABLED TwoAllocCall(t, k, 4 * MiB, 256)
               /\ \A h \in pool_live :
                     pool_lock[h.pool] = 0 => ENABLED TwoDropCall(t, h))
    /\ [][\A k \in PoolKinds :
             (pool_occupied'[k] # pool_occupied[k] \/ pool_lock'[k] # pool_lock[k]) =>
                /\ \A j \in PoolKinds \ {k} :
                      /\ pool_occupied'[j] = pool_occupied[j]
                      /\ pool_lock'[j] = pool_lock[j]
                      /\ pool_ret'[j] = pool_ret[j]
                /\ \E t \in Threads :
                      /\ pool_lock[k] \in {0, t}
                      /\ pool_lock'[k] \in {0, t}
                      /\ (IF pool_lock[k] = t THEN pool_pc[t] ELSE pool_pc'[t]).pool = k
                      /\ \A u \in Threads \ {t} : pool_pc'[u] = pool_pc[u]]_vars

\* Thread 1 is inside alloc on the host-visible pool and holds its lock,
\* thread 2 is inside the drop of an allocation of the other pool and holds
\* the lock of that one.
C30_Witness ==
    /\ pool_lock["host_visible"] = 1
    /\ pool_pc[1].pc = "alloc"
    /\ pool_lock["non_host_visible"] = 2
    /\ pool_pc[2].pc = "drop"

\* C31: with the mutex handed out fairly and a driver that answers, every
\* call of alloc and every drop comes to its end: a caller inside a call is
\* outside again later.  A call holds the mutex exactly while it is in its
\* body, only one call holds it at a time, and it is free whenever no call
\* is in its body, whichever way the last call ended (allocation returned,
\* error of the driver, range removed).
C31_EveryCallCompletes ==
    /\ \A t \in Threads : (pc[t] # "idle") ~> (pc[t] = "idle")
    /\ [](/\ \A t \in Threads :
                (pc[t] \in AllocPcs \cup DropPcs) <=> (lock = t)
          /\ (lock = 0) <=> (\A t \in Threads : pc[t] \in WaitPcs \cup {"idle"}))
    /\ [][\A t \in Threads :
             (pc[t] \in AllocPcs \cup DropPcs /\ pc'[t] # pc[t]) =>
                (pc'[t] = "idle" /\ lock' = 0)]_vars

\* A call of alloc has just returned the error of the driver while another
\* caller waits for the mutex, which is free again.
C31_Witness ==
    /\ lastRet.kind = "err"
    /\ lock = 0
    /\ \E t \in Threads : pc[t] \in WaitPcs

\* The adjacent pair (e[i], e[i + 1]) leaves room for the request behind the
\* rounded-up end of e[i].
PairFits(e, i, size, alignment) ==
    RoundUp(e[i].end, alignment) + size <= e[i + 1].start

\* Where the tail of a block starts for the request.
TailStart(e, alignment) ==
    IF Len(e) = 0 THEN 0 ELSE RoundUp(e[Len(e)].end, alignment)

\* The block has an adjacent pair or a tail that holds the request.
BlockFits(blk, size, alignment) ==
    \/ \E i \in 1..(Len(blk.entries) - 1) : PairFits(blk.entries, i, size, alignment)
    \/ TailStart(blk.entries, alignment) + size <= blk.cap

\* C32: alloc is first-fit in the order of the block list.  An allocation is
\* placed in the earliest block that has a fitting adjacent pair or tail; in
\* that block behind the first entry of the lowest fitting pair, the new
\* range inserted between the two; at the tail only when no pair of the block
\* fits; and in a new block only when no block of the list fits.
C32_FirstFit ==
    [][\A t \in Threads :
          AllocReturns(t) =>
             LET size == req[t].size
                 alignment == req[t].alignment
                 r == lastRet'
                 new == [start |-> r.offset, end |-> r.offset + size]
             IN  IF Len(occupied') > Len(occupied)
                 THEN \A b \in 1..Len(occupied) :
                         ~BlockFits(occupied[b], size, alignment)
                 ELSE \E b \in 1..Len(occupied) :
                         LET e == occupied[b].entries
                             pairs == {i \in 1..(Len(e) - 1) :
                                          PairFits(e, i, size, alignment)}
                         IN  /\ occupied[b].mem = r.mem
                             /\ \A c \in 1..(b - 1) :
                                   ~BlockFits(occupied[c], size, alignment)
                             /\ IF pairs # {}
                                THEN LET i == Min(pairs)
                                     IN  /\ r.offset = RoundUp(e[i].end, alignment)
                                         /\ occupied'[b].entries =
                                               SubSeq(e, 1, i) \o <<new>>
                                                  \o SubSeq(e, i + 1, Len(e))
                                ELSE /\ r.offset = TailStart(e, alignment)
                                     /\ r.offset + size <= occupied[b].cap
                                     /\ occupied'[b].entries = Append(e, new)
                             /\ \A c \in 1..Len(occupied) \ {b} :
                                   occupied'[c] = occupied[c]]_vars

\* An allocation has just been placed in the gap between two ranges of the
\* first block although the tail of that block had room for it as well, and
\* a second block exists.
C32_Witness ==
    /\ lastRet.kind = "ok"
    /\ lastRet.path = "gap"
    /\ Len(occupied) = 2
    /\ lastRet.mem = occupied[1].mem
    /\ TailStart(occupied[1].entries, lastRet.alignment) + lastRet.size
          <= occupied[1].cap

\* C33: alloc never goes below the first range of a block that has ranges.
\* An allocation placed in such a block starts at or behind the end of the
\* first range, which stays the first; while a block has ranges, no step
\* moves the start of its first range down, so the bytes in front of it stay
\* unused; offset 0 is returned for a new block or for a block without
\* ranges only.
C33_NeverBelowFirstRange ==
    [][/\ \A t \in Threads :
             AllocReturns(t) =>
                LET r == lastRet'
                    hits == {b \in 1..Len(occupied) : occupied[b].mem = r.mem}
                IN  /\ \A b \in hits :
                          occupied[b].entries # <<>> =>
                             /\ r.offset >= occupied[b].entries[1].end
                             /\ occupied'[b].entries[1] = occupied[b].entries[1]
                    /\ r.offset = 0 =>
                          \/ hits = {} /\ Len(occupied') = Len(occupied) + 1
                          \/ \E b \in hits : occupied[b].entries = <<>>
       /\ \A b \in 1..Len(occupied) :
             (occupied[b].entries # <<>> /\ occupied'[b].entries # <<>>) =>
                occupied'[b].entries[1].start >= occupied[b].entries[1].start]_vars

\* An allocation has just been placed in a block whose first range does not
\* start at 0 (the lowest allocation of the block was dropped) and the
\* request would have fitted in front of that range.
C33_Witness ==
    /\ lastRet.kind = "ok"
    /\ lastRet.path \in {"gap", "append"}
    /\ \E b \in 1..Len(occupied) :
          /\ occupied[b].mem = lastRet.mem
          /\ occupied[b].entries[1].start >= lastRet.size
          /\ lastRet.offset > occupied[b].entries[1].start

\* C34, as the claim has it: a block whose range list has become empty is
\* never reclaimed and never used again: no alloc places an allocation in a
\* block of the list that has no ranges.
C34_EmptyBlockNeverReused ==
    [][/\ Len(occupied') >= Len(occupied)
       /\ \A t \in Threads :
             AllocReturns(t) =>
                \A b \in 1..Len(occupied) :
                   occupied[b].mem = lastRet'.mem => occupied[b].entries # <<>>]_vars

\* C34, amended: a block whose range list has become empty is never
\* reclaimed: it keeps its place in the list and its capacity.  It is used
\* again: an alloc that finds no room in the blocks in front of it and whose
\* size is at most the capacity of the block is placed in it at offset 0,
\* and no block is added.
C34_EmptyBlockKeptAndReused ==
    [][/\ \A b \in 1..Len(occupied) :
             occupied[b].entries = <<>> =>
                /\ Len(occupied') >= Len(occupied)
                /\ occupied'[b].mem = occupied[b].mem
                /\ occupied'[b].cap = occupied[b].cap
       /\ \A t \in Threads :
             (pc[t] \in AllocPcs /\ pc'[t] = "idle") =>
                \A b \in 1..Len(occupied) :
                   ( /\ occupied[b].entries = <<>>
                     /\ req[t].size <= occupied[b].cap
                     /\ \A c \in 1..(b - 1) :
                           ~BlockFits(occupied[c], req[t].size, req[t].alignment) )
                   => /\ lastRet'.kind = "ok"
                      /\ lastRet'.mem = occupied[b].mem
                      /\ lastRet'.offset = 0
                      /\ occupied'[b].entries =
                            <<[start |-> 0, end |-> req[t].size]>>
                      /\ Len(occupied') = Len(occupied)]_vars

\* The second block of the pool had lost all its ranges and has just been
\* given an allocation at offset 0, while the first block still has ranges.
C34_Witness ==
    /\ lastRet.kind = "ok"
    /\ lastRet.path = "append"
    /\ lastRet.offset = 0
    /\ Len(occupied) = 2
    /\ lastRet.mem = occupied[2].mem
    /\ occupied[1].entries # <<>>

\* The allocations that exist: the ones the callers hold and the ones whose
\* destructor is running.
Referencing ==
    BagToSet(live) \cup {dropping[t] : t \in {u \in Threads : pc[u] \in DropPcs}}

\* C35: the drop of a pooled allocation never faults.  In every reachable
\* state the block of every allocation that exists, held or inside its
\* destructor, is in the block list of the pool with a range that starts at
\* the offset of the allocation, so the lookup of the destructor finds the
\* block; and a destructor that has the lock can always take its step.
C35_DropNeverFaults ==
    /\ [](\A a \in Referencing :
             \E b \in 1..Len(occupied) :
                /\ occupied[b].mem = a.mem
                /\ \E i \in 1..Len(occupied[b].entries) :
                      occupied[b].entries[i].start = a.offset)
    /\ [](\A t \in Threads : pc[t] \in DropPcs => ENABLED DropBody(t))

\* A destructor holds the lock and is about to look up its block, the second
\* of the list, while the callers still hold another allocation of that
\* block and one of the first block.
C35_Witness ==
    \E t \in Threads :
       /\ pc[t] = "drop_body"
       /\ Len(occupied) = 2
       /\ dropping[t].mem = occupied[2].mem
       /\ \E a \in BagToSet(live) : a.mem = dropping[t].mem
       /\ \E a \in BagToSet(live) : a.mem = occupied[1].mem

\* The device has neither Vulkan 1.1 nor khr_external_semaphore.
NoExternalSemaphores ==
    /\ ~semDevice.api_version_1_1
    /\ "khr_external_semaphore" \notin semDevice.extensions

\* C36: on a device without Vulkan 1.1 and without khr_external_semaphore,
\* Semaphore::new with export handle types returns RequirementNotMet: the
\* driver is not called, no semaphore and no handle comes to exist.  With no
\* export handle type the check is skipped: the call goes to the driver and
\* returns what the driver's answer gives.
C36_NewRequiresExternalSemaphores ==
    [][\A e \in SemCreateInfos :
          (NoExternalSemaphores /\ SemaphoreNew(e)) =>
             IF e # {}
             THEN /\ semRet'.op = "new"
                  /\ semRet'.kind = "err"
                  /\ semRet'.error = "RequirementNotMet"
                  /\ ~semRet'.driver
                  /\ semaphores' = semaphores
                  /\ semHist'.created = semHist.created
             ELSE /\ semRet'.op = "new"
                  /\ semRet'.driver
                  /\ semRet'.error # "RequirementNotMet"
                  /\ semRet'.kind = "ok" =>
                        /\ semHist'.created = semHist.created + 1
                        /\ semRet'.semaphore \in semaphores' \ semaphores]_vars

\* Semaphore::new has just returned RequirementNotMet on a device that has
\* neither Vulkan 1.1 nor the extension, where an earlier call without
\* export handle types had created a semaphore that still exists.
C36_Witness ==
    /\ NoExternalSemaphores
    /\ semRet.op = "new"
    /\ semRet.error = "RequirementNotMet"
    /\ \E sem \in semaphores : ~sem.must_put_in_pool /\ sem.export_handle_types = {}

\* C37: whatever the interleaving of from_pool and drop of the threads, no
\* handle is at once in the hands of a Semaphore that exists and in the pool
\* of the device, no handle is in the pool twice, and no two Semaphores that
\* exist have the same handle.
C37_HandleLiveOrPooledOnce ==
    /\ \A sem \in semaphores :
          \A i \in 1..Len(semaphore_pool) : semaphore_pool[i] # sem.handle
    /\ \A i, j \in 1..Len(semaphore_pool) :
          semaphore_pool[i] = semaphore_pool[j] => i = j
    /\ \A s1, s2 \in semaphores : s1.handle = s2.handle => s1 = s2

\* Thread 1 is inside from_pool, having found the pool empty; since then
\* another thread has taken two semaphores from the pool and dropped one of
\* them, whose handle is in the pool now, while the other still exists.
C37_Witness ==
    /\ semPc[1] = "new"
    /\ Len(semaphore_pool) = 1
    /\ \E sem \in semaphores : sem.must_put_in_pool
    /\ semHist.created = 2

\* C38: only the semaphores that from_pool has returned are recycled.  Every
\* handle in the pool is one that from_pool has returned, and none of them
\* has been destroyed.  The drop of a semaphore made by Semaphore::new or
\* from_handle destroys its handle and leaves the pool as it is; the drop of
\* a semaphore that from_pool has returned, popped from the pool or created
\* because the pool was empty, pushes its handle on the pool and destroys
\* nothing.
C38_OnlyFromPoolRecycled ==
    /\ [](\A i \in 1..Len(semaphore_pool) :
             /\ semaphore_pool[i] \in semHist.from_pool
             /\ semaphore_pool[i] \notin semHist.destroyed)
    /\ [][/\ \A sem \in semaphores \ semaphores' :
                IF sem.handle \in semHist.from_pool
                THEN /\ semaphore_pool' = Append(semaphore_pool, sem.handle)
                     /\ semHist'.destroyed = semHist.destroyed
                ELSE /\ semaphore_pool' = semaphore_pool
                     /\ semHist'.destroyed = semHist.destroyed \cup {sem.handle}
          /\ (semRet'.op \in {"new", "from_handle"} /\ semRet'.kind = "ok") =>
                /\ semRet'.semaphore.handle \notin semHist'.from_pool
                /\ semaphore_pool' = semaphore_pool
          /\ (semRet'.op = "from_pool" /\ semRet'.kind = "ok") =>
                semRet'.semaphore.handle \in semHist'.from_pool]_vars

\* The pool holds the handle of a semaphore that from_pool had created
\* because the pool was empty, and a semaphore made by Semaphore::new or
\* from_handle has just been dropped: its handle is destroyed and not in the
\* pool.
C38_Witness ==
    /\ semRet.op = "drop"
    /\ semaphore_pool = <<1>>
    /\ semHist.served = 0
    /\ semHist.destroyed = {2}
    /\ semaphores = {}

\* C39: a semaphore that from_pool makes of a popped handle has no export
\* handle types and is to be put in the pool again; export_fd on such a
\* semaphore never succeeds and never reaches the driver: it returns
\* RequirementNotMet when khr_external_semaphore_fd is not enabled and
\* HandleTypeNotSupported otherwise, for every handle type.
C39_PooledExportNeverSucceeds ==
    [][/\ Len(semaphore_pool') < Len(semaphore_pool) =>
             /\ semRet'.semaphore \in semaphores'
             /\ semRet'.semaphore.handle = semaphore_pool[Len(semaphore_pool)]
             /\ semRet'.semaphore.export_handle_types = {}
             /\ semRet'.semaphore.must_put_in_pool
       /\ \A sem \in semaphores, h \in ExternalSemaphoreHandleType :
             (sem.must_put_in_pool /\ ExportFd(sem, h)) =>
                /\ semRet'.kind = "err"
                /\ ~semRet'.driver
                /\ semRet'.error =
                      (IF "khr_external_semaphore_fd" \in semDevice.extensions
                       THEN "HandleTypeNotSupported" ELSE "RequirementNotMet")]_vars

\* On a device with khr_external_semaphore_fd, the only semaphore that exists
\* has the one handle ever created, popped from the pool, and export_fd
\* with OpaqueFd has just returned HandleTypeNotSupported for it.
C39_Witness ==
    /\ "khr_external_semaphore_fd" \in semDevice.extensions
    /\ semHist.created = 1
    /\ semHist.served >= 1
    /\ semaphore_pool = <<>>
    /\ semaphores = {[handle |-> 1, export_handle_types |-> {},
                      must_put_in_pool |-> TRUE]}
    /\ semRet.op = "export_fd"
    /\ semRet.handle_type = "OpaqueFd"
    /\ semRet.error = "HandleTypeNotSupported"

====
